---- MODULE Spec2Model ----
(***************************************************************************)
(* A model of the starbox execution session (Starbox), its module          *)
(* resolution engine (extractModLoaders and the three sub-resolvers) and   *)
(* the freeze / reset lifecycle around the first execution.                *)
(***************************************************************************)
EXTENDS Integers, Sequences, FiniteSets, TLC

(***************************************************************************)
(* Bounds of the model.                                                    *)
(***************************************************************************)
\* longest list of explicit module names a session accumulates
MaxNamed == 2
\* number of configuration calls (mutators, SetLog) issued on one session
MaxCfg == 2
\* the same, where the inputs are those of module resolution only
MaxResCfg == 3
\* number of execution calls (Run*, REPL, Execute) issued
MaxRun == 2
\* number of Reset calls issued
MaxReset == 1
NumGoroutines == 2
MaxConcCalls == 1
MaxConfs == 3
\* longest slice of names passed to a string utility
MaxLen == 3

(***************************************************************************)
(* Names.  Go compares strings bytewise; SortedUniverse lists every name   *)
(* the model uses in that order, so that sort.Strings can be modelled.     *)
(***************************************************************************)
SortedUniverse ==
    << "alpha.star", "atom", "cus", "d1", "d2", "file", "http", "log",
       "path", "runtime", "sub/beta.star" >>

RECURSIVE seqToSet(_)
seqToSet(ss) == IF ss = << >> THEN {} ELSE {Head(ss)} \cup seqToSet(Tail(ss))

IsSortedUnique(ss) ==
    \A i \in 1..Len(ss) : \A j \in 1..Len(ss) :
        i < j => \E a \in 1..Len(SortedUniverse) : \E b \in 1..Len(SortedUniverse) :
                    /\ SortedUniverse[a] = ss[i]
                    /\ SortedUniverse[b] = ss[j]
                    /\ a < b

Perms(S) ==
    { p \in [1..Cardinality(S) -> S] :
        \A i \in 1..Cardinality(S) : \A j \in 1..Cardinality(S) : p[i] = p[j] => i = j }

Put(m, k, v) == [x \in (DOMAIN m) \cup {k} |-> IF x = k THEN v ELSE m[x]]

\* starlet.ModuleLoaderMap.Merge / StringAnyMap.Merge: keys of b overwrite a
Merge(a, b) == [x \in (DOMAIN a) \cup (DOMAIN b) |-> IF x \in DOMAIN b THEN b[x] ELSE a[x]]

EmptyMap == [x \in {} |-> 0]

(***************************************************************************)
(* Errors.  An error value carries its identity (what errors.Is matches)   *)
(* and the tokens of its message.                                          *)
(***************************************************************************)
NilErr == [is |-> "nil", msg |-> << >>]

ErrModuleNotFound == [is |-> "ErrModuleNotFound", msg |-> << "module not found" >>]

\* the sentinel returned as it is, without the module name
WrapNotFoundBare(name) == ErrModuleNotFound

\* fmt.Errorf("%w: %s", ErrModuleNotFound, name)
WrapNotFound(name) == [is |-> "ErrModuleNotFound", msg |-> << "module not found", name >>]

\* fmt.Errorf("unknown module set: %s", modSet)
ErrUnknownSet(modSet) == [is |-> "unknownModuleSet", msg |-> << "unknown module set", modSet >>]

\* the error a DynamicModuleLoader returns itself
ErrResolver(name) == [is |-> "resolverError", msg |-> << "resolver failed", name >>]

ErrUnknownBuiltin(name) == [is |-> "starletUnknownModule", msg |-> << "load module", name >>]

ErrWriteFile(path) == [is |-> "memfsWriteFile", msg |-> << "write file", path >>]

ErrScript == [is |-> "scriptError", msg |-> << "starlark evaluation" >>]

ErrNoMachine == [is |-> "noMachine", msg |-> << "no starlet machine" >>]

ErrNoStarbox == [is |-> "ErrNoStarbox", msg |-> << "no starbox instance" >>]

(***************************************************************************)
(* String-set utilities.                                                   *)
(***************************************************************************)
RECURSIVE firstSeen(_, _)
firstSeen(ss, seen) ==
    IF ss = << >> THEN << >>
    ELSE IF Head(ss) \in seen THEN firstSeen(Tail(ss), seen)
         ELSE << Head(ss) >> \o firstSeen(Tail(ss), seen \cup {Head(ss)})

\* the distinct values of ss in the order the map iteration happens to give,
\* left unsorted
uniqueStringsUnsorted(ss) == firstSeen(ss, {})

\* uniqueStrings: a slice shorter than two is returned itself; otherwise the
\* keys of the map built from ss, sorted by sort.Strings
uniqueStrings(ss) ==
    IF Len(ss) < 2 THEN ss ELSE SelectSeq(SortedUniverse, LAMBDA s : s \in seqToSet(ss))

\* removeUniques without the seen map: later occurrences are kept
removeUniquesKeepingDuplicates(ss, removes) == SelectSeq(ss, LAMBDA s : s \notin removes)

removeUniques(ss, removes) == firstSeen(SelectSeq(ss, LAMBDA s : s \notin removes), {})

\* appendUniques whose second loop does not consult the seen map
appendUniquesUnseenAdditions(ss, appends) == firstSeen(ss, {}) \o appends

appendUniques(ss, appends) == firstSeen(ss \o appends, {})

intersectStrings(a, b) == SelectSeq(a, LAMBDA s : s \in seqToSet(b))

RECURSIVE stringsMapSet(_)
stringsMapSet(lists) ==
    IF lists = << >> THEN {} ELSE seqToSet(Head(lists)) \cup stringsMapSet(Tail(lists))

mapSetStrings(nameSet) == SelectSeq(SortedUniverse, LAMBDA s : s \in nameSet)

(***************************************************************************)
(* Name-set registry.                                                      *)
(***************************************************************************)
fullModuleNames == << "atom", "file", "http", "log", "path", "runtime" >>

EmptyModuleSet == "none"
SafeModuleSet == "safe"
NetworkModuleSet == "network"
FullModuleSet == "full"

moduleSets ==
    [k \in {EmptyModuleSet, SafeModuleSet, NetworkModuleSet, FullModuleSet} |->
        CASE k = EmptyModuleSet -> << >>
          [] k = SafeModuleSet -> removeUniques(fullModuleNames, {"file", "path", "runtime", "http", "log"})
          [] k = NetworkModuleSet -> removeUniques(fullModuleNames, {"file", "path", "runtime"})
          [] k = FullModuleSet -> appendUniques(fullModuleNames, << >>)]

\* a registry that knows the four named sets only
getModuleSetNamedOnly(setName) ==
    IF setName \in DOMAIN moduleSets THEN [names |-> moduleSets[setName], err |-> NilErr]
    ELSE [names |-> << >>, err |-> ErrUnknownSet(setName)]

getModuleSet(setName) ==
    IF setName \in DOMAIN moduleSets THEN [names |-> moduleSets[setName], err |-> NilErr]
    ELSE IF setName = "" THEN [names |-> << >>, err |-> NilErr]
    ELSE [names |-> << >>, err |-> ErrUnknownSet(setName)]

(***************************************************************************)
(* Loaders.  A loader is an opaque capability; the model keeps where it    *)
(* came from so that the collections can be compared.                      *)
(***************************************************************************)
\* the loader starlet builds for one of its built-in modules
StarletLoader(name) == [src |-> "starlet", name |-> name, n |-> 0, id |-> ""]
\* slog.NewModule(s.userLog).LoadModule
UserLogLoader == [src |-> "userlog", name |-> "log", n |-> 0, id |-> ""]
\* the loader object the n-th resolver invocation of a resolution returned
DynLoader(name, n) == [src |-> "dynamic", name |-> name, n |-> n, id |-> ""]
\* a loader function written by the host
HostLoader(id) == [src |-> "host", name |-> "", n |-> 0, id |-> id]
\* dataconv.WrapModuleData(name, data) and dataconv.WrapStructData(name, data)
WrapModuleData(name, data) == [src |-> "WrapModuleData", name |-> name, n |-> 0, id |-> data]
WrapStructData(name, data) == [src |-> "WrapStructData", name |-> name, n |-> 0, id |-> data]

\* starlet.MakeBuiltinModuleLoaderList / MakeBuiltinModuleLoaderMap
MakeBuiltinModuleLoaders(names) ==
    LET bad == SelectSeq(names, LAMBDA n : n \notin seqToSet(fullModuleNames))
    IN IF bad # << >>
       THEN [pre |-> << >>, lazy |-> EmptyMap, err |-> ErrUnknownBuiltin(Head(bad))]
       ELSE [pre |-> [i \in 1..Len(names) |-> StarletLoader(names[i])],
             lazy |-> [n \in seqToSet(names) |-> StarletLoader(n)],
             err |-> NilErr]

(***************************************************************************)
(* The dynamic resolver: nil, or a host callback that answers a name with  *)
(* a loader, with (nil, nil) or with an error.                             *)
(***************************************************************************)
NoResolver == [set |-> FALSE, nilFor |-> {}, errFor |-> {}]
Resolver(nilFor, errFor) == [set |-> TRUE, nilFor |-> nilFor, errFor |-> errFor]

metaLoadResult(metaLoad, name) ==
    IF name \in metaLoad.errFor THEN "err"
    ELSE IF name \in metaLoad.nilFor THEN "nil"
    ELSE "loader"

(***************************************************************************)
(* Module resolution engine.                                               *)
(***************************************************************************)
\* extractStarletModules taking the names of the module set only
extractStarletModulesSetOnly(setName, nameMods, userLogSet) ==
    LET set == getModuleSet(setName)
        made == MakeBuiltinModuleLoaders(set.names)
    IN IF set.err # NilErr
       THEN [pre |-> << >>, lazy |-> EmptyMap, names |-> << >>, err |-> set.err]
       ELSE [pre |-> made.pre, lazy |-> made.lazy, names |-> set.names, err |-> NilErr]

extractStarletModules(setName, nameMods, userLogSet) ==
    LET set == getModuleSet(setName)
        addNames == intersectStrings(fullModuleNames, nameMods)
        names == appendUniques(set.names, addNames)
        leftNames == SelectSeq(names, LAMBDA n : ~(n = "log" /\ userLogSet))
        rep == SelectSeq(names, LAMBDA n : n = "log" /\ userLogSet)
        repPre == [i \in 1..Len(rep) |-> UserLogLoader]
        repLazy == [n \in seqToSet(rep) |-> UserLogLoader]
        made == MakeBuiltinModuleLoaders(leftNames)
    IN IF set.err # NilErr
       THEN [pre |-> << >>, lazy |-> EmptyMap, names |-> << >>, err |-> set.err]
       ELSE IF Len(names) = 0
       THEN [pre |-> << >>, lazy |-> EmptyMap, names |-> names, err |-> NilErr]
       ELSE IF made.err # NilErr
       THEN [pre |-> << >>, lazy |-> EmptyMap, names |-> << >>, err |-> made.err]
       ELSE [pre |-> made.pre \o repPre, lazy |-> Merge(made.lazy, repLazy),
             names |-> names, err |-> NilErr]

\* extractLocalModules without the check against the names already resolved
extractLocalModulesNoSkip(lm, existMods, order) ==
    IF Cardinality(DOMAIN lm) = 0
    THEN [pre |-> << >>, lazy |-> EmptyMap, names |-> << >>]
    ELSE [pre |-> [i \in 1..Len(order) |-> lm[order[i]]],
          lazy |-> [n \in seqToSet(order) |-> lm[n]],
          names |-> order]

\* extractLocalModules filling the preload list only
extractLocalModulesPreOnly(lm, existMods, order) ==
    LET kept == SelectSeq(order, LAMBDA n : n \notin existMods)
    IN IF Cardinality(DOMAIN lm) = 0
       THEN [pre |-> << >>, lazy |-> EmptyMap, names |-> << >>]
       ELSE [pre |-> [i \in 1..Len(kept) |-> lm[kept[i]]],
             lazy |-> EmptyMap,
             names |-> kept]

\* extractLocalModules skipping every name starlet knows, selected or not
extractLocalModulesSkipKnown(lm, existMods, order) ==
    LET kept == SelectSeq(order, LAMBDA n : n \notin existMods \cup seqToSet(fullModuleNames))
    IN IF Cardinality(DOMAIN lm) = 0
       THEN [pre |-> << >>, lazy |-> EmptyMap, names |-> << >>]
       ELSE [pre |-> [i \in 1..Len(kept) |-> lm[kept[i]]],
             lazy |-> [n \in seqToSet(kept) |-> lm[n]],
             names |-> kept]

\* order: the order in which Go iterates over the loadMods map
extractLocalModules(lm, existMods, order) ==
    LET kept == SelectSeq(order, LAMBDA n : n \notin existMods)
    IN IF Cardinality(DOMAIN lm) = 0
       THEN [pre |-> << >>, lazy |-> EmptyMap, names |-> << >>]
       ELSE [pre |-> [i \in 1..Len(kept) |-> lm[kept[i]]],
             lazy |-> [n \in seqToSet(kept) |-> lm[n]],
             names |-> kept]

\* a loop that notes the first failure and goes on to the names after it
RECURSIVE dynamicLoopToEnd(_, _, _, _, _)
dynamicLoopToEnd(metaLoad, nameMods, existMods, i, acc) ==
    IF i > Len(nameMods) THEN acc
    ELSE LET name == nameMods[i]
             called == [acc EXCEPT !.calls = Append(@, name)]
             res == metaLoadResult(metaLoad, name)
             loader == DynLoader(name, Len(called.calls))
             failure == IF res = "err" THEN ErrResolver(name) ELSE WrapNotFound(name)
         IN IF name \in existMods
            THEN dynamicLoopToEnd(metaLoad, nameMods, existMods, i + 1, acc)
            ELSE IF ~metaLoad.set
            THEN [acc EXCEPT !.err = ErrModuleNotFound]
            ELSE IF res \in {"err", "nil"}
            THEN dynamicLoopToEnd(metaLoad, nameMods, existMods, i + 1,
                    [called EXCEPT !.err = IF acc.err # NilErr THEN acc.err ELSE failure])
            ELSE dynamicLoopToEnd(metaLoad, nameMods, existMods, i + 1,
                    [called EXCEPT !.pre = Append(@, loader),
                                   !.lazy = Put(@, name, loader),
                                   !.names = Append(@, name)])

\* the loop of extractDynamicModules over nameMods[i..]; acc holds preMods,
\* lazyMods, modNames and the names the resolver has been invoked with so far
RECURSIVE dynamicLoop(_, _, _, _, _)
dynamicLoop(metaLoad, nameMods, existMods, i, acc) ==
    IF i > Len(nameMods) THEN acc
    ELSE LET name == nameMods[i]
             called == [acc EXCEPT !.calls = Append(@, name)]
             res == metaLoadResult(metaLoad, name)
             loader == DynLoader(name, Len(called.calls))
         IN IF name \in existMods
            THEN dynamicLoop(metaLoad, nameMods, existMods, i + 1, acc)
            ELSE IF ~metaLoad.set
            THEN [acc EXCEPT !.err = ErrModuleNotFound]
            ELSE IF res = "err"
            THEN [called EXCEPT !.err = ErrResolver(name)]
            ELSE IF res = "nil"
            THEN [called EXCEPT !.err = WrapNotFound(name)]
            ELSE dynamicLoop(metaLoad, nameMods, existMods, i + 1,
                    [called EXCEPT !.pre = Append(@, loader),
                                   !.lazy = Put(@, name, loader),
                                   !.names = Append(@, name)])

\* extractDynamicModules asking the resolver for every explicit name
extractDynamicModulesEveryName(metaLoad, nameMods, existMods) ==
    dynamicLoop(metaLoad, nameMods, {}, 1,
        [pre |-> << >>, lazy |-> EmptyMap, names |-> << >>, err |-> NilErr, calls |-> << >>])

extractDynamicModules(metaLoad, nameMods, existMods) ==
    dynamicLoop(metaLoad, nameMods, existMods, 1,
        [pre |-> << >>, lazy |-> EmptyMap, names |-> << >>, err |-> NilErr, calls |-> << >>])

NoMods(err, calls) ==
    [pre |-> << >>, lazy |-> EmptyMap, names |-> << >>, err |-> err, calls |-> calls,
     star |-> << >>, cus |-> << >>, dyn |-> << >>]

\* extractModLoaders merging the custom loaders ahead of the built-in ones
extractModLoadersCustomFirst(cfg, order) ==
    LET star == extractStarletModules(cfg.modSet, cfg.namedMods, cfg.userLog)
        cus == extractLocalModules(cfg.loadMods, stringsMapSet(<< star.names >>), order)
        dyn == extractDynamicModules(cfg.dynMods, cfg.namedMods,
                                     stringsMapSet(<< star.names, cus.names >>))
    IN IF star.err # NilErr THEN NoMods(star.err, << >>)
       ELSE IF dyn.err # NilErr THEN NoMods(dyn.err, dyn.calls)
       ELSE [pre |-> cus.pre \o star.pre \o dyn.pre,
             lazy |-> Merge(Merge(star.lazy, cus.lazy), dyn.lazy),
             names |-> mapSetStrings(stringsMapSet(<< star.names, cus.names, dyn.names >>)),
             err |-> NilErr,
             calls |-> dyn.calls,
             star |-> star.names, cus |-> cus.names, dyn |-> dyn.names]

\* cfg: the session's configuration fields; order: Go's iteration order of loadMods
extractModLoaders(cfg, order) ==
    LET star == extractStarletModules(cfg.modSet, cfg.namedMods, cfg.userLog)
        cus == extractLocalModules(cfg.loadMods, stringsMapSet(<< star.names >>), order)
        dyn == extractDynamicModules(cfg.dynMods, cfg.namedMods,
                                     stringsMapSet(<< star.names, cus.names >>))
    IN IF star.err # NilErr THEN NoMods(star.err, << >>)
       ELSE IF dyn.err # NilErr THEN NoMods(dyn.err, dyn.calls)
       ELSE [pre |-> star.pre \o cus.pre \o dyn.pre,
             lazy |-> Merge(Merge(star.lazy, cus.lazy), dyn.lazy),
             names |-> mapSetStrings(stringsMapSet(<< star.names, cus.names, dyn.names >>)),
             err |-> NilErr,
             calls |-> dyn.calls,
             star |-> star.names, cus |-> cus.names, dyn |-> dyn.names]

(***************************************************************************)
(* The session (type Starbox), the package logger and the machine it owns. *)
(***************************************************************************)
VARIABLES
    hasExec,     \* Starbox.hasExec
    execTimes,   \* Starbox.execTimes
    structTag,   \* Starbox.structTag
    printFunc,   \* Starbox.printFunc ("nil" when unset)
    globals,     \* Starbox.globals
    modSet,      \* Starbox.modSet
    namedMods,   \* Starbox.namedMods
    loadMods,    \* Starbox.loadMods
    scriptMods,  \* Starbox.scriptMods
    modFS,       \* Starbox.modFS
    modNames,    \* Starbox.modNames
    dynMods,     \* Starbox.dynMods
    userLog,     \* Starbox.userLog (TRUE when a user logger is set)
    mac,         \* Starbox.mac, the starlet machine
    log,         \* the package logger of z_log.go
    last,        \* observation: the most recent public call and how it ended
    res,         \* observation: the most recent preparation since New or Reset
    prev,        \* observation: the last preparation before the latest Reset
    cfgLeft,     \* configuration calls the host may still issue
    runLeft,     \* execution calls the host may still issue
    resetLeft,   \* Reset calls the host may still issue
    mu,          \* s.mu: 0 when unlocked, else the goroutine that holds it
    pc,          \* per goroutine: the public call it is in and its position there
    confs,       \* the RunnerConfig values the host holds, in order of creation
    heap,        \* the extras maps those values point to
    util         \* a call of a string utility: the slices passed, their contents
                 \* after the call, and the slice returned

cfgVars == << structTag, printFunc, globals, modSet, namedMods, loadMods, scriptMods,
              modFS, dynMods, userLog >>

vars == << hasExec, execTimes, structTag, printFunc, globals, modSet, namedMods, loadMods,
           scriptMods, modFS, modNames, dynMods, userLog, mac, log, last, res, prev,
           cfgLeft, runLeft, resetLeft, mu, pc, confs, heap, util >>

runnerVars == << confs, heap >>

concVars == << mu, pc >>

Goroutines == 1..NumGoroutines
\* a goroutine that is in no call on the session
Idle == [op |-> "", at |-> "idle"]

\* the configuration of the session, as one value
Config ==
    [modSet |-> modSet, namedMods |-> namedMods, loadMods |-> loadMods,
     dynMods |-> dynMods, globals |-> globals, structTag |-> structTag,
     printFunc |-> printFunc, modFS |-> modFS, scriptMods |-> scriptMods,
     userLog |-> userLog]

NilFS == [kind |-> "nil", files |-> {}]
\* a filesystem supplied by the host
UserFS == [kind |-> "user", files |-> {"try.star"}]
\* memfs.New() filled with the script modules
MemFS(files) == [kind |-> "mem", files |-> files]

\* a script: what its evaluation does ("ok", "fail") and the modules it load()s
NoScript == [text |-> "ok", loads |-> << >>]

\* newStarMachine: starlet.NewDefault, global reassign, script cache on, default print
newStarMachine ==
    [customTag |-> "starlark", printFunc |-> "default", globals |-> EmptyMap,
     preloadMods |-> << >>, lazyloadMods |-> EmptyMap,
     scriptName |-> "", script |-> NoScript, scriptFS |-> NilFS,
     cache |-> "enabled", thread |-> FALSE, invoked |-> << >>, defined |-> FALSE,
     ranOK |-> FALSE,
     loadCache |-> [mods |-> EmptyMap, loaded |-> {}]]

\* reg: the name and the loader of a call that registers a custom loader
NoReg == [name |-> "", loader |-> [src |-> "", name |-> "", n |-> 0, id |-> ""]]

NoCall == [op |-> "New", res |-> "ok", err |-> NilErr, reg |-> NoReg,
           resolved |-> FALSE, eval |-> FALSE, repl |-> FALSE, cond |-> FALSE]

Returned(op) == [NoCall EXCEPT !.op = op]
Panicked(op) == [NoCall EXCEPT !.op = op, !.res = "panic"]
Failed(op, err) == [NoCall EXCEPT !.op = op, !.res = "error", !.err = err]

\* the configuration of New(name)
NewConfig ==
    [modSet |-> "", namedMods |-> << >>, loadMods |-> EmptyMap,
     dynMods |-> NoResolver, globals |-> EmptyMap, structTag |-> "",
     printFunc |-> "nil", modFS |-> NilFS, scriptMods |-> EmptyMap,
     userLog |-> FALSE]

\* the settings a machine works with: struct tag, print function, script cache
InEffect(m) == [customTag |-> m.customTag, printFunc |-> m.printFunc, cache |-> m.cache]

\* n: preparations since New or Reset; at: cfgLeft when it ran; cfg: the configuration
\* it read; out: what extractModLoaders returned; err, names: what prepareEnv
\* returned and the module names it stored; eff: the settings of the machine it
\* prepared
NoResolution ==
    [n |-> 0, at |-> 0, cfg |-> NewConfig, out |-> NoMods(NilErr, << >>),
     err |-> NilErr, names |-> << >>, eff |-> InEffect(newStarMachine)]

resolves == res.n

\* no string utility has been called
NoUtil == [op |-> "", given |-> << >>, args |-> << >>, list |-> << >>, rest |-> << >>,
           out |-> << >>]

\* New(name)
Init ==
    /\ hasExec = FALSE
    /\ execTimes = 0
    /\ structTag = ""
    /\ printFunc = "nil"
    /\ globals = EmptyMap
    /\ modSet = ""
    /\ namedMods = << >>
    /\ loadMods = EmptyMap
    /\ scriptMods = EmptyMap
    /\ modFS = NilFS
    /\ modNames = << >>
    /\ dynMods = NoResolver
    /\ userLog = FALSE
    /\ mac = newStarMachine
    /\ log = "noop"
    /\ last = NoCall
    /\ res = NoResolution
    /\ prev = NoResolution
    /\ cfgLeft = MaxCfg
    /\ runLeft = MaxRun
    /\ resetLeft = MaxReset
    /\ mu = 0
    /\ pc = [g \in Goroutines |-> Idle]
    /\ confs = << >>
    /\ heap = << >>
    /\ util = NoUtil

(***************************************************************************)
(* The package logger.  zap's DPanic logs and, only when the logger was    *)
(* built in development mode, panics afterwards.                           *)
(***************************************************************************)
DPanic(logger) == logger = "development"

\* SetLog(l)
SetLog(l) ==
    /\ cfgLeft > 0
    /\ cfgLeft' = cfgLeft - 1
    /\ log' = l
    /\ last' = Returned("SetLog")
    /\ UNCHANGED << hasExec, execTimes, cfgVars, modNames, mac, res, prev, runLeft, resetLeft,
                    concVars, runnerVars, util >>

(***************************************************************************)
(* Configuration mutators.  Each takes the lock, reports through DPanic    *)
(* when the session has executed, and then performs its assignment unless  *)
(* DPanic panicked.                                                        *)
(***************************************************************************)
\* the guard `if s.hasExec { log.DPanic(...) }` shared by every mutator
PanicsAfterExec == hasExec /\ DPanic(log)

\* bookkeeping shared by the mutators: what the call leaves alone
MutatorFrameReg(op, reg) ==
    /\ cfgLeft > 0
    /\ cfgLeft' = cfgLeft - 1
    /\ last' = [IF PanicsAfterExec THEN Panicked(op) ELSE Returned(op) EXCEPT !.reg = reg]
    /\ UNCHANGED << hasExec, execTimes, modNames, log, res, prev, runLeft, resetLeft,
                    concVars, runnerVars, util >>

MutatorFrame(op) == MutatorFrameReg(op, NoReg)

SetStructTag(tag) ==
    /\ MutatorFrame("SetStructTag")
    /\ structTag' = IF PanicsAfterExec THEN structTag ELSE tag
    /\ UNCHANGED << printFunc, globals, modSet, namedMods, loadMods, scriptMods, modFS,
                    dynMods, userLog, mac >>

SetPrintFunc(pf) ==
    /\ MutatorFrame("SetPrintFunc")
    /\ printFunc' = IF PanicsAfterExec THEN printFunc ELSE pf
    /\ UNCHANGED << structTag, globals, modSet, namedMods, loadMods, scriptMods, modFS,
                    dynMods, userLog, mac >>

SetFS(hfs) ==
    /\ MutatorFrame("SetFS")
    /\ modFS' = IF PanicsAfterExec THEN modFS ELSE hfs
    /\ UNCHANGED << structTag, printFunc, globals, modSet, namedMods, loadMods, scriptMods,
                    dynMods, userLog, mac >>

\* cache: "nil" disables the script cache, anything else is a custom provider
SetScriptCache(cache) ==
    /\ MutatorFrame("SetScriptCache")
    /\ mac' = IF PanicsAfterExec THEN mac
              ELSE IF cache = "nil" THEN [mac EXCEPT !.cache = "disabled"]
              ELSE [mac EXCEPT !.cache = cache]
    /\ UNCHANGED cfgVars

SetDynamicModuleLoader(loader) ==
    /\ MutatorFrame("SetDynamicModuleLoader")
    /\ dynMods' = IF PanicsAfterExec THEN dynMods ELSE loader
    /\ UNCHANGED << structTag, printFunc, globals, modSet, namedMods, loadMods, scriptMods,
                    modFS, userLog, mac >>

SetModuleSet(ms) ==
    /\ MutatorFrame("SetModuleSet")
    /\ modSet' = IF PanicsAfterExec THEN modSet ELSE ms
    /\ UNCHANGED << structTag, printFunc, globals, namedMods, loadMods, scriptMods, modFS,
                    dynMods, userLog, mac >>

SetLogger(l) ==
    /\ MutatorFrame("SetLogger")
    /\ userLog' = IF PanicsAfterExec THEN userLog ELSE l
    /\ UNCHANGED << structTag, printFunc, globals, modSet, namedMods, loadMods, scriptMods,
                    modFS, dynMods, mac >>

\* the mutators of s.globals: kvs is the map of entries the call writes
GlobalsMutator(op, kvs) ==
    /\ MutatorFrame(op)
    /\ globals' = IF PanicsAfterExec THEN globals ELSE Merge(globals, kvs)
    /\ UNCHANGED << structTag, printFunc, modSet, namedMods, loadMods, scriptMods, modFS,
                    dynMods, userLog, mac >>

AddKeyValue(key, value) == GlobalsMutator("AddKeyValue", Put(EmptyMap, key, value))

AddKeyStarlarkValue(key, value) == GlobalsMutator("AddKeyStarlarkValue", Put(EmptyMap, key, value))

AddKeyValues(keyValues) == GlobalsMutator("AddKeyValues", keyValues)

AddStarlarkValues(keyValues) == GlobalsMutator("AddStarlarkValues", keyValues)

AddBuiltin(name, starFunc) ==
    GlobalsMutator("AddBuiltin", Put(EmptyMap, name, starFunc))

\* req: "nil" or a request; ConvertServerRequest(nil) is nil and None is stored
AddHTTPContext(req) ==
    GlobalsMutator("AddHTTPContext",
        Put(Put(EmptyMap, "request", IF req = "nil" THEN "None" ELSE req),
            "response", "response"))

AttachMemory(name, memory) == GlobalsMutator("AttachMemory", Put(EmptyMap, name, memory))

CreateMemory(name) ==
    GlobalsMutator("CreateMemory", Put(EmptyMap, name, "collective_memory"))

AddNamedModules(moduleNames) ==
    /\ Len(namedMods) + Len(moduleNames) <= MaxNamed
    /\ MutatorFrame("AddNamedModules")
    /\ namedMods' = IF PanicsAfterExec THEN namedMods ELSE namedMods \o moduleNames
    /\ UNCHANGED << structTag, printFunc, globals, modSet, loadMods, scriptMods, modFS,
                    dynMods, userLog, mac >>

\* an alias: it calls AddNamedModules
AddModulesByName(moduleNames) ==
    /\ Len(namedMods) + Len(moduleNames) <= MaxNamed
    /\ MutatorFrame("AddModulesByName")
    /\ namedMods' = IF PanicsAfterExec THEN namedMods ELSE namedMods \o moduleNames
    /\ UNCHANGED << structTag, printFunc, globals, modSet, loadMods, scriptMods, modFS,
                    dynMods, userLog, mac >>

\* the mutators of s.loadMods: the loader the call stores under the name
LoaderMutator(op, name, loader) ==
    /\ MutatorFrameReg(op, [name |-> name, loader |-> loader])
    /\ loadMods' = IF PanicsAfterExec THEN loadMods ELSE Put(loadMods, name, loader)
    /\ UNCHANGED << structTag, printFunc, globals, modSet, namedMods, scriptMods, modFS,
                    dynMods, userLog, mac >>

AddModuleLoader(moduleName, moduleLoader) ==
    LoaderMutator("AddModuleLoader", moduleName, moduleLoader)

AddModuleFunctions(name, funcs) ==
    LoaderMutator("AddModuleFunctions", name, WrapModuleData(name, funcs))

AddModuleData(moduleName, moduleData) ==
    LoaderMutator("AddModuleData", moduleName, WrapModuleData(moduleName, moduleData))

AddStructFunctions(name, funcs) ==
    LoaderMutator("AddStructFunctions", name, WrapStructData(name, funcs))

AddStructData(structName, structData) ==
    LoaderMutator("AddStructData", structName, WrapStructData(structName, structData))

\* strings.TrimSpace, then ".star" appended unless it is the suffix already
scriptFileName(moduleName) ==
    CASE moduleName = "alpha" -> "alpha.star"
      [] moduleName = " alpha " -> "alpha.star"
      [] moduleName = "alpha.star" -> "alpha.star"
      [] moduleName = "sub/beta" -> "sub/beta.star"
      [] OTHER -> moduleName

AddModuleScript(moduleName, moduleScript) ==
    /\ MutatorFrame("AddModuleScript")
    /\ scriptMods' = IF PanicsAfterExec THEN scriptMods
                     ELSE Put(scriptMods, scriptFileName(moduleName), moduleScript)
    /\ UNCHANGED << structTag, printFunc, globals, modSet, namedMods, loadMods, modFS,
                    dynMods, userLog, mac >>

(***************************************************************************)
(* The machine (starlet.Machine), as far as the session drives it.         *)
(***************************************************************************)
\* Machine.SetScript(name, content, fs)
macSetScript(m, name, script, fs) ==
    [m EXCEPT !.scriptName = name, !.script = script, !.scriptFS = fs]

\* Machine.SetScriptContent(content)
macSetScriptContent(m, script) == [m EXCEPT !.script = script]

\* the first run of a machine builds its thread: every preload loader is invoked
\* once, in list order, and the lazyload map is bound to the thread's load cache
macPrepareThread(m) ==
    IF m.thread THEN m
    ELSE [m EXCEPT !.thread = TRUE,
                   !.invoked = @ \o [i \in 1..Len(m.preloadMods) |->
                                        [via |-> "preload", loader |-> m.preloadMods[i]]],
                   !.loadCache = [mods |-> m.lazyloadMods, loaded |-> {}]]

\* the load() statements of a script, in name order: a module of the bound lazyload
\* map is materialized on its first load and cached, anything else is a file
RECURSIVE macLoad(_, _)
macLoad(m, names) ==
    IF names = << >> THEN [mac |-> m, err |-> NilErr]
    ELSE LET name == Head(names)
         IN IF name \in m.loadCache.loaded THEN macLoad(m, Tail(names))
            ELSE IF name \in DOMAIN m.loadCache.mods
            THEN macLoad([m EXCEPT !.invoked = Append(@, [via |-> "lazy", loader |-> m.loadCache.mods[name]]),
                                   !.loadCache.loaded = @ \cup {name}],
                         Tail(names))
            ELSE IF name \in m.scriptFS.files
            THEN macLoad([m EXCEPT !.loadCache.loaded = @ \cup {name}], Tail(names))
            ELSE [mac |-> m, err |-> ErrScript]

\* Machine.Run / RunFile / RunWithTimeout / RunWithContext: evaluate the script
macRun(m) ==
    LET t == macPrepareThread(m)
        l == macLoad(t, m.script.loads)
        done == [l.mac EXCEPT !.defined = TRUE]
    IN IF l.err # NilErr THEN [mac |-> done, err |-> l.err]
       ELSE IF m.script.text = "fail" THEN [mac |-> done, err |-> ErrScript]
       ELSE [mac |-> [done EXCEPT !.ranOK = TRUE], err |-> NilErr]

\* Machine.REPL
macREPL(m) == macPrepareThread(m)

(***************************************************************************)
(* Preparation of the environment before a run.                            *)
(***************************************************************************)
\* memfs.WriteFile fails when the directory of the path does not exist
WriteFileOK(fp) == fp # "sub/beta.star"

\* the part of prepareEnv before extractModLoaders: tag, print function, globals
macConfigured ==
    [mac EXCEPT !.customTag = IF structTag # "" THEN structTag ELSE @,
                !.printFunc = IF printFunc # "nil" THEN printFunc ELSE @,
                !.globals = globals]

\* the part of prepareEnv after extractModLoaders returned ex without an error
\* (sorder: Go's iteration order over scriptMods)
prepareModules(m1, ex, sorder) ==
    LET m2 == IF Len(ex.pre) > 0 \/ Cardinality(DOMAIN ex.lazy) > 0
              THEN [m1 EXCEPT !.preloadMods = ex.pre, !.lazyloadMods = ex.lazy]
              ELSE m1
        useScripts == Cardinality(DOMAIN scriptMods) > 0 /\ modFS = NilFS
        bad == SelectSeq(sorder, LAMBDA fp : ~WriteFileOK(fp))
        names == IF useScripts THEN ex.names \o sorder ELSE ex.names
    IN IF useScripts /\ bad # << >>
       THEN [mac |-> m2, modFS |-> modFS, modNames |-> modNames,
             err |-> ErrWriteFile(Head(bad)), resolved |-> TRUE, ex |-> ex]
       ELSE [mac |-> [m2 EXCEPT !.globals = Put(@, "__modules__", names)],
             modFS |-> IF useScripts THEN MemFS(DOMAIN scriptMods) ELSE modFS,
             modNames |-> names, err |-> NilErr, resolved |-> TRUE, ex |-> ex]

prepareEnvWith(m1, ex, sorder) ==
    IF ex.err # NilErr
    THEN [mac |-> m1, modFS |-> modFS, modNames |-> modNames, err |-> ex.err,
          resolved |-> TRUE, ex |-> ex]
    ELSE prepareModules(m1, ex, sorder)

\* order, sorder: Go's iteration orders over loadMods and scriptMods
prepareEnv(order, sorder) ==
    prepareEnvWith(macConfigured, extractModLoaders(Config, order), sorder)

\* the outcome of a preparation that was skipped
NotPrepared(m) ==
    [mac |-> m, modFS |-> modFS, modNames |-> modNames, err |-> NilErr,
     resolved |-> FALSE, ex |-> res.out]

\* the last step of prepareScriptEnv: the script is set on the prepared machine
withScript(pe, name, script) ==
    IF pe.err # NilErr THEN pe
    ELSE [pe EXCEPT !.mac = macSetScript(pe.mac, name, script, pe.modFS)]

prepareScriptEnv(script, order, sorder) ==
    IF hasExec
    THEN NotPrepared(macSetScriptContent(mac, script))
    ELSE withScript(prepareEnv(order, sorder), "box.star", script)

(***************************************************************************)
(* Execution calls.                                                        *)
(***************************************************************************)
\* an execution call that sets the flag and the counter before it looks at the
\* outcome of its preparation
ExecFrameFlagFirst(op, prep, r, repl, cond) ==
    /\ runLeft > 0
    /\ runLeft' = runLeft - 1
    /\ res' = IF prep.resolved
              THEN [n |-> res.n + 1, at |-> cfgLeft, cfg |-> Config, out |-> prep.ex,
                    err |-> prep.err,
                    names |-> IF prep.err = NilErr THEN prep.modNames ELSE << >>,
                    eff |-> InEffect(prep.mac)]
              ELSE res
    /\ modFS' = prep.modFS
    /\ modNames' = prep.modNames
    /\ hasExec' = TRUE
    /\ execTimes' = execTimes + 1
    /\ IF prep.err # NilErr
       THEN /\ mac' = prep.mac
            /\ last' = [Failed(op, prep.err) EXCEPT !.resolved = prep.resolved]
       ELSE /\ mac' = IF repl THEN macREPL(r.mac) ELSE r.mac
            /\ last' = [op |-> op, res |-> IF r.err = NilErr THEN "ok" ELSE "error",
                        err |-> r.err, reg |-> NoReg, resolved |-> prep.resolved,
                        eval |-> TRUE, repl |-> repl, cond |-> cond]
    /\ UNCHANGED << structTag, printFunc, globals, modSet, namedMods, loadMods, scriptMods,
                    dynMods, userLog, log, prev, cfgLeft, resetLeft, concVars, runnerVars, util >>

\* an execution call that drives the machine whatever its preparation returned
ExecFrameRunAnyway(op, prep, r, repl, cond) ==
    /\ runLeft > 0
    /\ runLeft' = runLeft - 1
    /\ res' = IF prep.resolved
              THEN [n |-> res.n + 1, at |-> cfgLeft, cfg |-> Config, out |-> prep.ex,
                    err |-> prep.err,
                    names |-> IF prep.err = NilErr THEN prep.modNames ELSE << >>,
                    eff |-> InEffect(prep.mac)]
              ELSE res
    /\ modFS' = prep.modFS
    /\ modNames' = prep.modNames
    /\ hasExec' = TRUE
    /\ execTimes' = execTimes + 1
    /\ mac' = IF repl THEN macREPL(r.mac) ELSE r.mac
    /\ last' = [op |-> op,
                res |-> IF r.err = NilErr /\ prep.err = NilErr THEN "ok" ELSE "error",
                err |-> IF prep.err # NilErr THEN prep.err ELSE r.err, reg |-> NoReg,
                resolved |-> prep.resolved, eval |-> TRUE, repl |-> repl, cond |-> cond]
    /\ UNCHANGED << structTag, printFunc, globals, modSet, namedMods, loadMods, scriptMods,
                    dynMods, userLog, log, prev, cfgLeft, resetLeft, concVars, runnerVars, util >>

\* what every execution call does with the outcome of its preparation: return the
\* error, or set the flag, count the execution and drive the machine
\* (r: the machine after the run and what the run returned)
ExecFrame(op, prep, r, repl, cond) ==
    /\ runLeft > 0
    /\ runLeft' = runLeft - 1
    /\ res' = IF prep.resolved
              THEN [n |-> res.n + 1, at |-> cfgLeft, cfg |-> Config, out |-> prep.ex,
                    err |-> prep.err,
                    names |-> IF prep.err = NilErr THEN prep.modNames ELSE << >>,
                    eff |-> InEffect(prep.mac)]
              ELSE res
    /\ modFS' = prep.modFS
    /\ modNames' = prep.modNames
    /\ IF prep.err # NilErr
       THEN /\ mac' = prep.mac
            /\ last' = [Failed(op, prep.err) EXCEPT !.resolved = prep.resolved]
            /\ UNCHANGED << hasExec, execTimes >>
       ELSE /\ hasExec' = TRUE
            /\ execTimes' = execTimes + 1
            /\ mac' = IF repl THEN macREPL(r.mac) ELSE r.mac
            /\ last' = [op |-> op, res |-> IF r.err = NilErr THEN "ok" ELSE "error",
                        err |-> r.err, reg |-> NoReg, resolved |-> prep.resolved,
                        eval |-> TRUE,
                        repl |-> repl, cond |-> cond]
    /\ UNCHANGED << structTag, printFunc, globals, modSet, namedMods, loadMods, scriptMods,
                    dynMods, userLog, log, prev, cfgLeft, resetLeft, concVars, runnerVars, util >>

\* s.mac.Run() on the prepared machine
RunPrepared(op, prep, repl, cond) == ExecFrame(op, prep, macRun(prep.mac), repl, cond)

Run(script) ==
    \E order \in Perms(DOMAIN loadMods), sorder \in Perms(DOMAIN scriptMods) :
        RunPrepared("Run", prepareScriptEnv(script, order, sorder), FALSE, FALSE)

\* RunFile prepares the environment itself, whether or not the session has executed
RunFile(file) ==
    \E order \in Perms(DOMAIN loadMods), sorder \in Perms(DOMAIN scriptMods) :
        RunPrepared("RunFile", withScript(prepareEnv(order, sorder), file.name, file.script),
                    FALSE, FALSE)

RunTimeout(script, timeout) ==
    \E order \in Perms(DOMAIN loadMods), sorder \in Perms(DOMAIN scriptMods) :
        RunPrepared("RunTimeout", prepareScriptEnv(script, order, sorder), FALSE, FALSE)

\* no script is evaluated: the machine goes straight to its REPL
REPLPrepared(prep) == ExecFrame("REPL", prep, [mac |-> prep.mac, err |-> NilErr], TRUE, FALSE)

REPL ==
    \E order \in Perms(DOMAIN loadMods), sorder \in Perms(DOMAIN scriptMods) :
        REPLPrepared(prepareScriptEnv(NoScript, order, sorder))

RunInspect(script) ==
    \E order \in Perms(DOMAIN loadMods), sorder \in Perms(DOMAIN scriptMods) :
        RunPrepared("RunInspect", prepareScriptEnv(script, order, sorder), TRUE, FALSE)

\* cond: what the condition function answers
RunInspectIf(script, cond) ==
    \E order \in Perms(DOMAIN loadMods), sorder \in Perms(DOMAIN scriptMods) :
        RunPrepared("RunInspectIf", prepareScriptEnv(script, order, sorder), cond, TRUE)

\* a CallStarlarkFunc that counts as an execution of the session
CallStarlarkFuncAsExecution(s, name) ==
    /\ last' = IF s = "nil" THEN Failed("CallStarlarkFunc", ErrNoMachine)
               ELSE IF mac.defined /\ name = "defined"
               THEN Returned("CallStarlarkFunc")
               ELSE Failed("CallStarlarkFunc", ErrScript)
    /\ hasExec' = (hasExec \/ s # "nil")
    /\ UNCHANGED << execTimes, cfgVars, modNames, mac, log, res, prev,
                    cfgLeft, runLeft, resetLeft, concVars, runnerVars, util >>

\* s: the receiver, "nil" for a nil *Starbox (or one without a machine), else the
\* session; the nil test comes before the lock is taken
CallStarlarkFunc(s, name) ==
    /\ last' = IF s = "nil" THEN Failed("CallStarlarkFunc", ErrNoMachine)
               ELSE IF mac.defined /\ name = "defined"
               THEN Returned("CallStarlarkFunc")
               ELSE Failed("CallStarlarkFunc", ErrScript)
    /\ UNCHANGED << hasExec, execTimes, cfgVars, modNames, mac, log, res, prev,
                    cfgLeft, runLeft, resetLeft, concVars, runnerVars, util >>

\* a Reset that also drops the registered loaders and the explicit names
ResetClearingModules ==
    /\ resetLeft > 0
    /\ resetLeft' = resetLeft - 1
    /\ mac' = newStarMachine
    /\ hasExec' = FALSE
    /\ loadMods' = EmptyMap
    /\ namedMods' = << >>
    /\ prev' = res
    /\ res' = NoResolution
    /\ last' = Returned("Reset")
    /\ UNCHANGED << execTimes, structTag, printFunc, globals, modSet, scriptMods, modFS,
                    dynMods, userLog, modNames, log, cfgLeft, runLeft, concVars, runnerVars, util >>

\* a Reset that also starts the execution counter again
ResetZeroingCounter ==
    /\ resetLeft > 0
    /\ resetLeft' = resetLeft - 1
    /\ mac' = newStarMachine
    /\ hasExec' = FALSE
    /\ execTimes' = 0
    /\ prev' = res
    /\ res' = NoResolution
    /\ last' = Returned("Reset")
    /\ UNCHANGED << cfgVars, modNames, log, cfgLeft, runLeft, concVars, runnerVars, util >>

Reset ==
    /\ resetLeft > 0
    /\ resetLeft' = resetLeft - 1
    /\ mac' = newStarMachine
    /\ hasExec' = FALSE
    /\ prev' = res
    /\ res' = NoResolution
    /\ last' = Returned("Reset")
    /\ UNCHANGED << execTimes, cfgVars, modNames, log, cfgLeft, runLeft, concVars, runnerVars, util >>

(***************************************************************************)
(* RunnerConfig.Execute on a configuration c.                              *)
(***************************************************************************)
\* the preparation of Execute: prepareEnv on the first run only, then SetScript
\* with the file name of the configuration ("box.star" when it has none)
runnerPrepare(c, order, sorder) ==
    withScript(IF ~hasExec THEN prepareEnv(order, sorder) ELSE NotPrepared(mac),
               IF c.fileName = "" THEN "box.star" ELSE c.fileName, c.script)

RunnerExecute(c) ==
    IF ~c.box
    THEN /\ last' = Failed("Execute", ErrNoStarbox)
         /\ UNCHANGED << hasExec, execTimes, cfgVars, modNames, mac, log, res, prev,
                         cfgLeft, runLeft, resetLeft, concVars, runnerVars, util >>
    ELSE \E order \in Perms(DOMAIN loadMods), sorder \in Perms(DOMAIN scriptMods) :
            RunPrepared("Execute", runnerPrepare(c, order, sorder),
                        c.condREPL = "true", c.condREPL # "nil")

(***************************************************************************)
(* The life of one session: every public call, each with one or two        *)
(* representative inputs.                                                  *)
(***************************************************************************)
ScriptOK == NoScript
ScriptFail == [text |-> "fail", loads |-> << >>]
Loggers == {"development", "production"}

Mutate ==
    \/ SetStructTag("json")
    \/ SetPrintFunc("noopPrint")
    \/ SetFS(UserFS)
    \/ SetScriptCache("nil")
    \/ \E loader \in {Resolver({}, {}), Resolver({}, {"d1"})} : SetDynamicModuleLoader(loader)
    \/ \E ms \in {SafeModuleSet, "bogus"} : SetModuleSet(ms)
    \/ SetLogger(TRUE)
    \/ AddKeyValue("k", "v1")
    \/ AddKeyStarlarkValue("k", "sv1")
    \/ AddKeyValues(Put(EmptyMap, "k", "v2"))
    \/ AddStarlarkValues(Put(EmptyMap, "k", "sv2"))
    \/ AddBuiltin("k", "fn")
    \/ AddHTTPContext("req")
    \/ AttachMemory("k", "shared")
    \/ CreateMemory("k")
    \/ AddNamedModules(<< "d1" >>)
    \/ AddModulesByName(<< "http" >>)
    \/ AddModuleLoader("cus", HostLoader("l1"))
    \/ AddModuleFunctions("cus", "funcs")
    \/ AddModuleData("cus", "data")
    \/ AddStructFunctions("cus", "funcs")
    \/ AddStructData("cus", "data")
    \/ \E n \in {"alpha", "sub/beta"} : AddModuleScript(n, "src")

Execute ==
    \/ \E sc \in {ScriptOK, ScriptFail} : Run(sc)
    \/ RunFile([name |-> "try.star", script |-> ScriptOK])
    \/ RunTimeout(ScriptOK, 1)
    \/ REPL
    \/ RunInspect(ScriptOK)
    \/ \E cond \in BOOLEAN : RunInspectIf(ScriptOK, cond)
    \/ \E b \in BOOLEAN :
          RunnerExecute([box |-> b, fileName |-> "", script |-> ScriptOK, condREPL |-> "nil"])
    \/ \E s \in {"nil", "session"}, n \in {"defined", "missing"} : CallStarlarkFunc(s, n)

Next ==
    \/ Mutate
    \/ Execute
    \/ Reset
    \/ \E l \in Loggers : SetLog(l)

Spec == Init /\ [][Next]_vars

(***************************************************************************)
(* Module resolution: the calls that configure the four module sources,    *)
(* with inputs that make the sources overlap, and the runs that resolve.   *)
(***************************************************************************)
ExplicitNames == {"http", "cus", "d1", "d2"}
NameLists == UNION { [1..k -> ExplicitNames] : k \in 1..MaxNamed }
LoaderNames == {"http", "cus"}
ModuleSetNames == {SafeModuleSet, NetworkModuleSet, "bogus"}
Resolvers == {NoResolver, Resolver({}, {}), Resolver({"d1"}, {}), Resolver({}, {"d1"})}
ScriptLoads == [text |-> "ok", loads |-> << "http", "cus", "cus" >>]

InitRes ==
    /\ Init!1 /\ Init!2 /\ Init!3 /\ Init!4 /\ Init!5 /\ Init!6 /\ Init!7 /\ Init!8
    /\ Init!9 /\ Init!10 /\ Init!11 /\ Init!12 /\ Init!13 /\ Init!14 /\ Init!15
    /\ Init!16 /\ Init!17 /\ Init!18
    /\ cfgLeft = MaxResCfg
    /\ runLeft = MaxRun
    /\ resetLeft = MaxReset
    /\ Init!22 /\ Init!23 /\ Init!24 /\ Init!25 /\ Init!26

NextRes ==
    \/ \E ms \in ModuleSetNames : SetModuleSet(ms)
    \/ \E l \in NameLists : AddNamedModules(l)
    \/ \E n \in LoaderNames : AddModuleLoader(n, HostLoader(n))
    \/ \E loader \in Resolvers : SetDynamicModuleLoader(loader)
    \/ \E n \in {"alpha", "sub/beta"} : AddModuleScript(n, "src")
    \/ SetLogger(TRUE)
    \/ \E sc \in {ScriptOK, ScriptLoads} : Run(sc)
    \/ Reset

SpecRes == InitRes /\ [][NextRes]_vars

(***************************************************************************)
(* One session configured with a module set only, as TestSetModuleSet      *)
(* drives it: every identifier of the registry, one unknown identifier,    *)
(* and scripts that load a module of the set.                              *)
(***************************************************************************)
SetIdentifiers ==
    {"", EmptyModuleSet, SafeModuleSet, NetworkModuleSet, FullModuleSet, "unknown"}
SetProbes == {"atom", "http", "log", "file"}

NextSets ==
    \/ \E ms \in SetIdentifiers : SetModuleSet(ms)
    \/ \E m \in SetProbes : Run([text |-> "ok", loads |-> << m >>])
    \/ Reset

SpecSets == InitRes /\ [][NextSets]_vars

(***************************************************************************)
(* One session driven by several goroutines.  A call is a sequence of      *)
(* steps: Run, Reset, the mutators and CallStarlarkFunc take s.mu with     *)
(* Lock and release it with the deferred Unlock; RunnerConfig.Execute      *)
(* works on the session of its configuration without taking s.mu, and      *)
(* CallStarlarkFunc reads s.mac before it takes it.                        *)
(***************************************************************************)
At(g, op, at) == pc[g] = [op |-> op, at |-> at]
Goto(g, op, at) == pc' = [pc EXCEPT ![g] = [op |-> op, at |-> at]]

\* s.mu.Lock() at the entry of Run, Reset and a mutator: blocks while the lock is held
Lock(g, op, first) ==
    /\ pc[g] = Idle
    /\ mu = 0
    /\ mu' = g
    /\ Goto(g, op, first)

\* the deferred s.mu.Unlock()
Unlock(g) ==
    /\ pc[g].at = "unlock"
    /\ mu = g
    /\ mu' = 0
    /\ pc' = [pc EXCEPT ![g] = Idle]
    /\ UNCHANGED << hasExec, execTimes, cfgVars, modNames, mac, log, last, res, prev,
                    cfgLeft, runLeft, resetLeft, runnerVars, util >>

\* where a call goes when its body is over: Execute holds no lock to release
Leave(g, op) == IF op = "Execute" THEN pc' = [pc EXCEPT ![g] = Idle] ELSE Goto(g, op, "unlock")

RunLock(g) ==
    /\ runLeft > 0
    /\ runLeft' = runLeft - 1
    /\ Lock(g, "Run", "prepare")
    /\ UNCHANGED << hasExec, execTimes, cfgVars, modNames, mac, log, last, res, prev,
                    cfgLeft, resetLeft, runnerVars, util >>

\* Execute starts on the session without locking it
ExecuteEnter(g) ==
    /\ runLeft > 0
    /\ runLeft' = runLeft - 1
    /\ pc[g] = Idle
    /\ Goto(g, "Execute", "prepare")
    /\ UNCHANGED << hasExec, execTimes, cfgVars, modNames, mac, log, last, res, prev,
                    cfgLeft, resetLeft, mu, runnerVars, util >>

\* the preparation of Run (prepareScriptEnv) or of Execute, then the flag and counter
PrepareStep(g, op, prep) ==
    /\ At(g, op, "prepare")
    /\ res' = IF prep.resolved
              THEN [n |-> res.n + 1, at |-> cfgLeft, cfg |-> Config, out |-> prep.ex,
                    err |-> prep.err,
                    names |-> IF prep.err = NilErr THEN prep.modNames ELSE << >>,
                    eff |-> InEffect(prep.mac)]
              ELSE res
    /\ modFS' = prep.modFS
    /\ modNames' = prep.modNames
    /\ mac' = prep.mac
    /\ IF prep.err # NilErr
       THEN /\ last' = [Failed(op, prep.err) EXCEPT !.resolved = prep.resolved]
            /\ Leave(g, op)
            /\ UNCHANGED << hasExec, execTimes >>
       ELSE /\ hasExec' = TRUE
            /\ execTimes' = execTimes + 1
            /\ Goto(g, op, "eval")
            /\ UNCHANGED last
    /\ UNCHANGED << structTag, printFunc, globals, modSet, namedMods, loadMods, scriptMods,
                    dynMods, userLog, log, prev, cfgLeft, runLeft, resetLeft, mu, runnerVars, util >>

RunPrepare(g) ==
    \E order \in Perms(DOMAIN loadMods), sorder \in Perms(DOMAIN scriptMods) :
        PrepareStep(g, "Run", prepareScriptEnv(NoScript, order, sorder))

ExecutePrepare(g) ==
    \E order \in Perms(DOMAIN loadMods), sorder \in Perms(DOMAIN scriptMods) :
        PrepareStep(g, "Execute",
                    runnerPrepare([box |-> TRUE, fileName |-> "", script |-> NoScript,
                                   condREPL |-> "nil"], order, sorder))

\* s.mac.Run() of Run, b.mac.RunWithContext() of Execute
EvalStep(g, op, r) ==
    /\ At(g, op, "eval")
    /\ mac' = r.mac
    /\ last' = [op |-> op, res |-> IF r.err = NilErr THEN "ok" ELSE "error", err |-> r.err,
                reg |-> NoReg, resolved |-> FALSE, eval |-> TRUE, repl |-> FALSE, cond |-> FALSE]
    /\ Leave(g, op)
    /\ UNCHANGED << hasExec, execTimes, cfgVars, modNames, log, res, prev,
                    cfgLeft, runLeft, resetLeft, mu, runnerVars, util >>

RunEval(g) == EvalStep(g, "Run", macRun(mac))
ExecuteEval(g) == EvalStep(g, "Execute", macRun(mac))

ResetLock(g) ==
    /\ resetLeft > 0
    /\ resetLeft' = resetLeft - 1
    /\ Lock(g, "Reset", "body")
    /\ UNCHANGED << hasExec, execTimes, cfgVars, modNames, mac, log, last, res, prev,
                    cfgLeft, runLeft, runnerVars, util >>

ResetBody(g) ==
    /\ At(g, "Reset", "body")
    /\ mac' = newStarMachine
    /\ hasExec' = FALSE
    /\ prev' = res
    /\ res' = NoResolution
    /\ last' = Returned("Reset")
    /\ Goto(g, "Reset", "unlock")
    /\ UNCHANGED << execTimes, cfgVars, modNames, log, cfgLeft, runLeft, resetLeft, mu, runnerVars, util >>

SetModuleSetLock(g) ==
    /\ cfgLeft > 0
    /\ cfgLeft' = cfgLeft - 1
    /\ Lock(g, "SetModuleSet", "body")
    /\ UNCHANGED << hasExec, execTimes, cfgVars, modNames, mac, log, last, res, prev,
                    runLeft, resetLeft, runnerVars, util >>

\* SetModuleSet without the deferred Unlock: the panic leaves with the lock held
SetModuleSetBodyPanicHoldsLock(g, ms) ==
    /\ At(g, "SetModuleSet", "body")
    /\ modSet' = IF PanicsAfterExec THEN modSet ELSE ms
    /\ last' = IF PanicsAfterExec THEN Panicked("SetModuleSet") ELSE Returned("SetModuleSet")
    /\ IF PanicsAfterExec
       THEN pc' = [pc EXCEPT ![g] = Idle]
       ELSE Goto(g, "SetModuleSet", "unlock")
    /\ UNCHANGED << hasExec, execTimes, structTag, printFunc, globals, namedMods, loadMods,
                    scriptMods, modFS, dynMods, userLog, modNames, mac, log, res, prev,
                    cfgLeft, runLeft, resetLeft, mu, runnerVars, util >>

SetModuleSetBody(g, ms) ==
    /\ At(g, "SetModuleSet", "body")
    /\ modSet' = IF PanicsAfterExec THEN modSet ELSE ms
    /\ last' = IF PanicsAfterExec THEN Panicked("SetModuleSet") ELSE Returned("SetModuleSet")
    /\ Goto(g, "SetModuleSet", "unlock")
    /\ UNCHANGED << hasExec, execTimes, structTag, printFunc, globals, namedMods, loadMods,
                    scriptMods, modFS, dynMods, userLog, modNames, mac, log, res, prev,
                    cfgLeft, runLeft, resetLeft, mu, runnerVars, util >>

\* CallStarlarkFunc tests s.mac against nil before it locks
CallCheck(g) ==
    /\ pc[g] = Idle
    /\ Cardinality({h \in Goroutines : pc[h].op = "CallStarlarkFunc"}) < MaxConcCalls
    /\ Goto(g, "CallStarlarkFunc", "check")
    /\ UNCHANGED << hasExec, execTimes, cfgVars, modNames, mac, log, last, res, prev,
                    cfgLeft, runLeft, resetLeft, mu, runnerVars, util >>

CallLock(g) ==
    /\ At(g, "CallStarlarkFunc", "check")
    /\ mu = 0
    /\ mu' = g
    /\ Goto(g, "CallStarlarkFunc", "body")
    /\ UNCHANGED << hasExec, execTimes, cfgVars, modNames, mac, log, last, res, prev,
                    cfgLeft, runLeft, resetLeft, runnerVars, util >>

CallBody(g, name) ==
    /\ At(g, "CallStarlarkFunc", "body")
    /\ last' = IF mac.defined /\ name = "defined"
               THEN Returned("CallStarlarkFunc")
               ELSE Failed("CallStarlarkFunc", ErrScript)
    /\ Goto(g, "CallStarlarkFunc", "unlock")
    /\ UNCHANGED << hasExec, execTimes, cfgVars, modNames, mac, log, res, prev,
                    cfgLeft, runLeft, resetLeft, mu, runnerVars, util >>

NextConc ==
    \E g \in Goroutines :
        \/ RunLock(g)
        \/ RunPrepare(g)
        \/ RunEval(g)
        \/ ExecuteEnter(g)
        \/ ExecutePrepare(g)
        \/ ExecuteEval(g)
        \/ ResetLock(g)
        \/ ResetBody(g)
        \/ SetModuleSetLock(g)
        \/ SetModuleSetBody(g, SafeModuleSet)
        \/ CallCheck(g)
        \/ CallLock(g)
        \/ CallBody(g, "defined")
        \/ Unlock(g)

SpecConc == Init /\ [][NextConc]_vars

(***************************************************************************)
(* The lock on every exit path.  The session starts under either package   *)
(* logger, so that a mutator after an execution panics or only logs, and   *)
(* SetModuleSet also installs a set name no registry knows, so that the    *)
(* next preparation returns an error.  A goroutine that is inside a call   *)
(* keeps running (weak fairness of its steps: preparation, evaluation,     *)
(* body and the deferred Unlock), and a goroutine blocked in Lock gets the *)
(* mutex in the end (sync.Mutex hands it to a starving waiter: strong      *)
(* fairness of the acquisition).  The preparation has no guard but the     *)
(* goroutine's position and always moves the goroutine on, so its fairness *)
(* is stated on that move alone.                                           *)
(***************************************************************************)
\* the preparation of goroutine g comes to an end: it goes on to the evaluation,
\* to the deferred Unlock or, in Execute, back to the caller
PrepareEnds(g) ==
    /\ pc[g].at = "prepare"
    /\ \E at \in {"eval", "unlock", "idle"} :
          pc' = [pc EXCEPT ![g] = IF at = "idle" THEN Idle ELSE [op |-> pc[g].op, at |-> at]]

\* what goroutine g does after the preparation, up to the deferred Unlock
Finish(g) ==
    \/ RunEval(g)
    \/ ExecuteEval(g)
    \/ ResetBody(g)
    \/ \E ms \in {SafeModuleSet, "unknown"} : SetModuleSetBody(g, ms)
    \/ \E name \in {"defined", "missing"} : CallBody(g, name)
    \/ Unlock(g)

InitLock ==
    /\ Init!1 /\ Init!2 /\ Init!3 /\ Init!4 /\ Init!5 /\ Init!6 /\ Init!7 /\ Init!8
    /\ Init!9 /\ Init!10 /\ Init!11 /\ Init!12 /\ Init!13 /\ Init!14
    /\ log \in {"noop", "development"}
    /\ Init!16 /\ Init!17 /\ Init!18 /\ Init!19 /\ Init!20 /\ Init!21 /\ Init!22
    /\ Init!23 /\ Init!24 /\ Init!25 /\ Init!26

NextLock ==
    \E g \in Goroutines :
        \/ RunLock(g)
        \/ ExecuteEnter(g)
        \/ ResetLock(g)
        \/ SetModuleSetLock(g)
        \/ CallCheck(g)
        \/ CallLock(g)
        \/ RunPrepare(g)
        \/ ExecutePrepare(g)
        \/ Finish(g)

SpecLock ==
    /\ InitLock
    /\ [][NextLock]_vars
    /\ \A g \in Goroutines : WF_pc(PrepareEnds(g)) /\ WF_vars(Finish(g)) /\ SF_vars(CallLock(g))

(***************************************************************************)
(* Properties.                                                             *)
(***************************************************************************)
MutatorOps ==
    {"SetStructTag", "SetPrintFunc", "SetFS", "SetScriptCache", "SetDynamicModuleLoader",
     "SetModuleSet", "AddKeyValue", "AddKeyStarlarkValue", "AddKeyValues",
     "AddStarlarkValues", "AddBuiltin", "AddNamedModules", "AddModulesByName",
     "AddModuleLoader", "AddModuleFunctions", "AddModuleData", "AddStructFunctions",
     "AddStructData", "AddModuleScript", "AddHTTPContext", "AttachMemory", "CreateMemory"}

Count(seq, x) == Cardinality({i \in DOMAIN seq : seq[i] = x})
Range(f) == {f[x] : x \in DOMAIN f}

\* what the built-in and the custom source claim for a configuration, and the
\* explicit names left for the dynamic source, in the order they were added
BuiltinNames(cfg) ==
    seqToSet(getModuleSet(cfg.modSet).names)
        \cup (seqToSet(cfg.namedMods) \cap seqToSet(fullModuleNames))
Unmatched(cfg) ==
    SelectSeq(cfg.namedMods, LAMBDA n : n \notin BuiltinNames(cfg) \cup DOMAIN cfg.loadMods)

\* the most recent preparation ran the resolution engine, and it succeeded
Resolved == res.n > 0 /\ res.out.err = NilErr

\* C1: a mutator call on a session that has executed successfully panics, and the
\* same call on a session that has not executed returns normally, whatever the
\* package logger is.
C1_MutatorPanicsAfterExec ==
    last.op \in MutatorOps =>
        /\ (hasExec /\ mac.ranOK) => last.res = "panic"
        /\ ~hasExec => last.res = "ok"

\* C2: while the session is Executed no call changes the configuration.
C2_ConfigFrozen == [][(hasExec /\ hasExec') => Config' = Config]_vars

\* C3: the call that takes the session to Executed prepares the modules once, and
\* no call on an Executed session runs the resolution again.
C3_ResolveOncePerSegment ==
    [][/\ (hasExec /\ hasExec') => res'.n = res.n
       /\ (~hasExec /\ hasExec') => res'.n = res.n + 1]_vars

\* the goroutines that are inside a preparation or a script evaluation
InFlight == {g \in Goroutines : pc[g].at \in {"prepare", "eval"}}

\* C4: every goroutine that is inside a public call on the session holds the
\* session's lock there, so at most one preparation or script evaluation is in
\* flight and no mutator or Reset body runs next to it.
C4_MutualExclusion ==
    /\ \A g \in Goroutines : pc[g].at \in {"check", "prepare", "eval", "body"} => mu = g
    /\ Cardinality(InFlight) <= 1

\* C5: a name registered as a custom loader and resolved by the built-in source has
\* the built-in loader in the machine's lazyload map and once in its preload list;
\* the custom loader is in neither and the machine never invokes it.
C5_BuiltinPriority ==
    Resolved =>
        \A n \in (DOMAIN res.cfg.loadMods) \cap BuiltinNames(res.cfg) :
            /\ n \in DOMAIN mac.lazyloadMods
            /\ mac.lazyloadMods[n] \in {StarletLoader(n), UserLogLoader}
            /\ Count(mac.preloadMods, mac.lazyloadMods[n]) = 1
            /\ res.cfg.loadMods[n] \notin Range(mac.preloadMods)
            /\ \A i \in DOMAIN mac.invoked : mac.invoked[i].loader # res.cfg.loadMods[n]

\* C5 witness: a run loaded a built-in module whose name also has a custom loader.
C5_Witness ==
    /\ Resolved
    /\ hasExec
    /\ \E n \in (DOMAIN res.cfg.loadMods) \cap BuiltinNames(res.cfg) :
          Count(mac.invoked, [via |-> "lazy", loader |-> StarletLoader(n)]) = 1

\* C6: after a successful preparation the module name list of the session, which is
\* also the script's __modules__, is sorted and free of duplicates.
C6_NamesSortedUnique ==
    (res.n > 0 /\ res.err = NilErr) =>
        /\ IsSortedUnique(modNames)
        /\ mac.globals["__modules__"] = modNames

\* C7: execute, Reset, execute without a configuration call in between: the second
\* preparation yields the module names and the outcome of the first.
C7_IdempotentAcrossReset ==
    (prev.n > 0 /\ res.n > 0 /\ prev.at = res.at) =>
        /\ res.names = prev.names
        /\ (res.err = NilErr) = (prev.err = NilErr)

\* C8: in a successful resolution every distinct explicit name left to the dynamic
\* source is passed to the resolver exactly once and has one loader in the preload
\* list.
C8_ResolverOncePerName ==
    Resolved =>
        \A n \in seqToSet(Unmatched(res.cfg)) :
            /\ Count(res.out.calls, n) = 1
            /\ Cardinality({i \in DOMAIN res.out.pre :
                               res.out.pre[i].src = "dynamic" /\ res.out.pre[i].name = n}) = 1

\* C9: without a resolver, a resolution that leaves an explicit name to the dynamic
\* source fails with module-not-found, and the error names the first such name.
C9_NotFoundNamesModule ==
    (/\ res.n > 0
     /\ getModuleSet(res.cfg.modSet).err = NilErr
     /\ ~res.cfg.dynMods.set
     /\ Unmatched(res.cfg) # << >>) =>
        /\ res.err.is = "ErrModuleNotFound"
        /\ res.err.msg = << "module not found", Head(Unmatched(res.cfg)) >>

ScenarioA ==
    /\ res.n > 0
    /\ res.cfg.modSet = SafeModuleSet
    /\ res.cfg.namedMods = << "http" >>
    /\ ~res.cfg.dynMods.set

\* C10: Scenario A (set "safe", explicit names ["http"], no resolver): the
\* resolution fails.
C10_ScenarioAFails == ScenarioA => res.out.err # NilErr

\* C10, amended: in Scenario A the resolution succeeds; "http" is a recognised
\* built-in name, so the built-in source provides it next to the safe set.
C10_ScenarioAResolves ==
    ScenarioA =>
        /\ res.out.err = NilErr
        /\ res.out.lazy["http"] = StarletLoader("http")
        /\ seqToSet(moduleSets[SafeModuleSet]) \cup {"http"} \subseteq seqToSet(res.out.names)

\* C10 witness: a session in Scenario A has executed with http among its modules.
C10_Witness == ScenarioA /\ hasExec /\ "http" \in seqToSet(modNames)


\* the explicit names left to the dynamic source for which the resolver of the
\* configuration gives no loader, in explicit-name order
Refused(cfg) ==
    SelectSeq(Unmatched(cfg), LAMBDA n : n \in cfg.dynMods.nilFor \cup cfg.dynMods.errFor)

LoaderOps ==
    {"AddModuleLoader", "AddModuleFunctions", "AddModuleData", "AddStructFunctions",
     "AddStructData"}

\* the loaders of a list that were registered by the host
CustomIn(loaders) ==
    {loaders[i] : i \in {j \in DOMAIN loaders :
                            loaders[j].src \in {"host", "WrapModuleData", "WrapStructData"}}}

\* C12: a registration stores its loader under the name, replacing the one that was
\* there, and a script that has just run had, for every custom name that is no
\* built-in, the loader registered last and no other custom loader.
C12_LastRegistrationWins ==
    /\ (last.op \in LoaderOps /\ last.res = "ok") =>
          /\ last.reg.name \in DOMAIN loadMods
          /\ loadMods[last.reg.name] = last.reg.loader
    /\ (last.eval /\ last.res = "ok") =>
          /\ \A n \in (DOMAIN loadMods) \ BuiltinNames(Config) :
                /\ n \in DOMAIN mac.lazyloadMods
                /\ mac.lazyloadMods[n] = loadMods[n]
                /\ Count(mac.preloadMods, loadMods[n]) = 1
          /\ CustomIn(mac.preloadMods) \subseteq Range(loadMods)


\* the step is an execution call that returned the error of its preparation
PrepareFailed == runLeft' < runLeft /\ last'.res = "error" /\ ~last'.eval

\* the session is Unexecuted and its most recent preparation failed
FailedUnexecuted == ~hasExec /\ res.n > 0 /\ res.err # NilErr

\* C13: an execution call on an Unexecuted session that fails in its preparation
\* leaves the flag, the counter, the module names and the configuration as they
\* were; after it every mutator returns normally and the next execution call
\* resolves again, on the configuration of that moment.
C13_FailedPrepareKeepsUnexecuted ==
    [][/\ (~hasExec /\ PrepareFailed) =>
            /\ ~hasExec'
            /\ execTimes' = execTimes
            /\ modNames' = modNames
            /\ Config' = Config
            /\ res'.n = res.n + 1
       /\ (FailedUnexecuted /\ cfgLeft' < cfgLeft /\ last'.op \in MutatorOps) =>
            last'.res = "ok"
       /\ (FailedUnexecuted /\ runLeft' < runLeft) =>
            /\ res'.n = res.n + 1
            /\ res'.cfg = Config]_vars

\* C13 witness: the first preparation failed, the host corrected the configuration,
\* and the second execution call resolved and ran.
C13_Witness ==
    /\ hasExec /\ execTimes = 1
    /\ resetLeft = MaxReset
    /\ res.n = 2 /\ res.err = NilErr /\ res.at < MaxCfg
    /\ last.eval /\ last.res = "ok"


\* the step is an execution call whose preparation ran and returned an error
PrepareReturnedError == runLeft' < runLeft /\ res'.n = res.n + 1 /\ res'.err # NilErr

\* C14: an execution call whose preparation returned an error returns that error;
\* the machine evaluates nothing (no thread, no loader invoked, no global defined),
\* no REPL is entered and the inspect condition is not called.
C14_PrepareErrorShortCircuits ==
    [][PrepareReturnedError =>
          /\ last'.res = "error"
          /\ last'.err = res'.err
          /\ ~last'.eval /\ ~last'.repl /\ ~last'.cond
          /\ mac'.thread = mac.thread
          /\ mac'.invoked = mac.invoked
          /\ mac'.defined = mac.defined
          /\ mac'.ranOK = mac.ranOK]_vars

\* C14 witness: RunInspectIf returned the error of its preparation.
C14_Witness ==
    /\ last.op = "RunInspectIf"
    /\ last.res = "error" /\ last.resolved /\ ~last.eval
    /\ res.n > 0 /\ res.err = last.err


\* a Reset has happened and no preparation since
FreshAfterReset == resetLeft < MaxReset /\ res.n = 0

\* C15: Reset installs a new machine and clears the flag, and changes nothing else
\* of the session (configuration, counter, module names); after it a mutator
\* returns normally, and the next execution call resolves the modules again from
\* the configuration of that moment.
C15_ResetKeepsConfiguration ==
    [][/\ resetLeft' < resetLeft =>
            /\ ~hasExec'
            /\ mac' = newStarMachine
            /\ Config' = Config
            /\ execTimes' = execTimes
            /\ modNames' = modNames
       /\ (FreshAfterReset /\ cfgLeft' < cfgLeft /\ last'.op \in MutatorOps) =>
            /\ last'.res = "ok"
            /\ ~hasExec'
       /\ (FreshAfterReset /\ runLeft' < runLeft) =>
            /\ res'.n = 1
            /\ res'.cfg = Config]_vars

\* C15 witness: loaders registered before the first execution were resolved again by
\* the execution after the Reset, a configuration call having been made in between.
C15_Witness ==
    /\ resetLeft < MaxReset
    /\ hasExec
    /\ prev.n > 0 /\ res.n = 1 /\ res.err = NilErr
    /\ res.at < prev.at
    /\ prev.cfg.loadMods # EmptyMap
    /\ res.cfg.loadMods = prev.cfg.loadMods
    /\ CustomIn(mac.preloadMods) = Range(loadMods)


\* C16: an execution after Reset, with no configuration call since the execution
\* before the Reset, works with the settings that execution worked with: struct
\* tag, print function, filesystem and script cache.
C16_ResetKeepsSettings ==
    (prev.n > 0 /\ res.n > 0 /\ prev.at = res.at /\ prev.err = NilErr /\ res.err = NilErr) =>
        /\ res.eff = prev.eff
        /\ res.cfg.structTag = prev.cfg.structTag
        /\ res.cfg.printFunc = prev.cfg.printFunc


\* C17: in the one execution of a session, a custom loader that was resolved for its
\* name is in the preload list and the lazyload map, is invoked once for the
\* preload bindings, and once more for lazy loading exactly when the script loads
\* the module, however many load() statements name it.
C17_DoubleMaterialization ==
    (Resolved /\ hasExec /\ last.eval /\ runLeft = MaxRun - 1) =>
        \A n \in (DOMAIN res.cfg.loadMods) \ BuiltinNames(res.cfg) :
            LET l == res.cfg.loadMods[n]
            IN /\ Count(mac.preloadMods, l) = 1
               /\ n \in DOMAIN mac.lazyloadMods /\ mac.lazyloadMods[n] = l
               /\ Count(mac.invoked, [via |-> "preload", loader |-> l]) = 1
               /\ Count(mac.invoked, [via |-> "lazy", loader |-> l]) =
                     IF n \in mac.loadCache.loaded THEN 1 ELSE 0
               /\ (last.res = "ok" /\ n \in seqToSet(mac.script.loads)) =>
                     n \in mac.loadCache.loaded

\* C17 witness: a script with two load() statements for a custom module has run, and
\* the loader of that module was invoked once for preload and once for lazy load.
C17_Witness ==
    /\ Resolved /\ hasExec /\ last.eval /\ last.res = "ok" /\ runLeft = MaxRun - 1
    /\ Count(mac.script.loads, "cus") = 2
    /\ "cus" \in DOMAIN res.cfg.loadMods
    /\ Len(SelectSeq(mac.invoked, LAMBDA v : v.loader = res.cfg.loadMods["cus"])) = 2


(***************************************************************************)
(* Run configurations.  A RunnerConfig is a struct value; its extras field *)
(* is a Go map, that is a reference: 0 is the nil map, any other value is  *)
(* the address of a map in heap.  Every builder copies the struct          *)
(* ("n := *c"), which copies the reference and not the map.                *)
(***************************************************************************)
sessionVars == << hasExec, execTimes, cfgVars, modNames, mac, log, last, res, prev,
                  cfgLeft, runLeft, resetLeft, concVars >>

RunnerConfig == [box |-> FALSE, fileName |-> "", script |-> NoScript, ctx |-> "nil",
                 timeout |-> 0, condREPL |-> "nil", extras |-> 0]

\* return &n: the host now holds one more configuration
Derive(n) ==
    /\ Len(confs) < MaxConfs
    /\ confs' = Append(confs, n)
    /\ UNCHANGED << sessionVars, util >>

NewRunConfig == Derive(RunnerConfig) /\ UNCHANGED heap

CreateRunConfig == Derive([RunnerConfig EXCEPT !.box = TRUE]) /\ UNCHANGED heap

FileName(c, name) == Derive([confs[c] EXCEPT !.fileName = name]) /\ UNCHANGED heap

Script(c, content) == Derive([confs[c] EXCEPT !.script = content]) /\ UNCHANGED heap

Context(c, ctx) == Derive([confs[c] EXCEPT !.ctx = ctx]) /\ UNCHANGED heap

Timeout(c, timeout) == Derive([confs[c] EXCEPT !.timeout = timeout]) /\ UNCHANGED heap

Inspect(c, force) ==
    Derive([confs[c] EXCEPT !.condREPL = IF force THEN "true" ELSE "false"]) /\ UNCHANGED heap

InspectCond(c, cond) == Derive([confs[c] EXCEPT !.condREPL = cond]) /\ UNCHANGED heap

\* the map n.extras refers to after "if n.extras == nil { n.extras = make(...) }"
extrasOf(n) == IF n.extras = 0 THEN Len(heap) + 1 ELSE n.extras

\* a write through the reference at: it lands in the map every holder of at sees
storeExtras(at, m) ==
    IF at = Len(heap) + 1 THEN Append(heap, m) ELSE [heap EXCEPT ![at] = Merge(@, m)]

KeyValue(c, key, value) ==
    /\ heap' = storeExtras(extrasOf(confs[c]), Put(EmptyMap, key, value))
    /\ Derive([confs[c] EXCEPT !.extras = extrasOf(confs[c])])

KeyValueMap(c, extras) ==
    /\ heap' = storeExtras(extrasOf(confs[c]), extras)
    /\ Derive([confs[c] EXCEPT !.extras = extrasOf(confs[c])])

Starbox(c, b) == Derive([confs[c] EXCEPT !.box = b]) /\ UNCHANGED heap

\* the key-values c.Execute hands to RunWithContext
passedExtras(c) == IF confs[c].extras = 0 THEN EmptyMap ELSE heap[confs[c].extras]

\* Execute works on "cfg := *c" and writes cfg's fields only
ExecuteConfig(c) ==
    RunnerExecute([box |-> confs[c].box, fileName |-> confs[c].fileName,
                   script |-> confs[c].script, condREPL |-> confs[c].condREPL])

Builders ==
    \E c \in DOMAIN confs :
        \/ FileName(c, "mine.star")
        \/ \E sc \in {ScriptOK, ScriptFail} : Script(c, sc)
        \/ Context(c, "background")
        \/ \E t \in {-1, 1} : Timeout(c, t)
        \/ \E force \in BOOLEAN : Inspect(c, force)
        \/ InspectCond(c, "true")
        \/ \E kv \in {<< "word", "World" >>, << "a", "10" >>} : KeyValue(c, kv[1], kv[2])
        \/ KeyValueMap(c, Put(Put(EmptyMap, "a", "100"), "c", "50"))
        \/ \E b \in BOOLEAN : Starbox(c, b)

NextRunner ==
    \/ NewRunConfig
    \/ CreateRunConfig
    \/ Builders
    \/ \E c \in DOMAIN confs : ExecuteConfig(c)

SpecRunner == Init /\ [][NextRunner]_vars

(***************************************************************************)
(* The string utilities called on their own.  The host passes slices of    *)
(* at most MaxLen names; a later call may pass the slice an earlier call   *)
(* returned.  None of the three functions writes to a slice it was passed: *)
(* removeUniques and appendUniques fill a slice they make, uniqueStrings   *)
(* returns the short slice itself or sorts a slice it made.                *)
(***************************************************************************)
UtilNames == {"atom", "file", "http"}
UtilLists == UNION {[1..n -> UtilNames] : n \in 0..MaxLen}

\* the record of one call: list and rest are what the slices passed hold afterwards
UtilCall(op, ss, args, out) ==
    /\ util' = [op |-> op, given |-> ss, args |-> args, list |-> ss, rest |-> args,
                out |-> out]
    /\ UNCHANGED << sessionVars, runnerVars >>

UniqueStringsCall(ss) ==
    UtilCall("uniqueStrings", ss, << >>, uniqueStrings(ss))

\* the loop over removals builds the remove map
RemoveUniquesCall(ss, removals) ==
    UtilCall("removeUniques", ss, removals, removeUniques(ss, seqToSet(removals)))

AppendUniquesCall(ss, additions) ==
    UtilCall("appendUniques", ss, additions, appendUniques(ss, additions))

InitUtil ==
    /\ Init!1 /\ Init!2 /\ Init!3 /\ Init!4 /\ Init!5 /\ Init!6 /\ Init!7 /\ Init!8
    /\ Init!9 /\ Init!10 /\ Init!11 /\ Init!12 /\ Init!13 /\ Init!14 /\ Init!15
    /\ Init!16 /\ Init!17 /\ Init!18 /\ Init!19 /\ Init!20 /\ Init!21 /\ Init!22
    /\ Init!23 /\ Init!24 /\ Init!25
    /\ \E ss \in UtilLists, args \in UtilLists : util = [NoUtil EXCEPT !.given = ss, !.args = args]

NextUtil ==
    \E ss \in {util.given, util.out} :
        \/ UniqueStringsCall(ss)
        \/ RemoveUniquesCall(ss, util.args)
        \/ AppendUniquesCall(ss, util.args)

SpecUtil == InitUtil /\ [][NextUtil]_vars

RegistryNames(id) ==
    CASE id \in {"", EmptyModuleSet} -> << >>
      [] id = SafeModuleSet ->
            SelectSeq(fullModuleNames,
                      LAMBDA n : n \notin {"file", "path", "runtime", "http", "log"})
      [] id = NetworkModuleSet ->
            SelectSeq(fullModuleNames, LAMBDA n : n \notin {"file", "path", "runtime"})
      [] id = FullModuleSet -> fullModuleNames
RegistryKnown == {"", EmptyModuleSet, SafeModuleSet, NetworkModuleSet, FullModuleSet}

\* C19: getModuleSet gives the empty list for "none" and "", the full list minus
\* {file, path, runtime, http, log} for "safe", minus {file, path, runtime} for
\* "network", the full list for "full", and an unknown-set error for anything else;
\* safe is within network and network within full; a session configured with the
\* set alone resolves to exactly these names and its script can load exactly them.
C19_NameSetRegistry ==
    /\ IF modSet \in RegistryKnown
       THEN getModuleSet(modSet) = [names |-> RegistryNames(modSet), err |-> NilErr]
       ELSE getModuleSet(modSet).err = ErrUnknownSet(modSet)
    /\ seqToSet(getModuleSet(SafeModuleSet).names)
          \subseteq seqToSet(getModuleSet(NetworkModuleSet).names)
    /\ seqToSet(getModuleSet(NetworkModuleSet).names)
          \subseteq seqToSet(getModuleSet(FullModuleSet).names)
    /\ res.n > 0 =>
          IF res.cfg.modSet \in RegistryKnown
          THEN /\ res.err = NilErr
               /\ seqToSet(res.names) = seqToSet(RegistryNames(res.cfg.modSet))
               /\ (last.eval /\ mac.script.loads # << >>) =>
                     (last.res = "ok" <=>
                         mac.script.loads[1] \in seqToSet(RegistryNames(res.cfg.modSet)))
          ELSE res.err = ErrUnknownSet(res.cfg.modSet)

C19_Witness ==
    /\ res.n > 0
    /\ res.cfg.modSet = NetworkModuleSet
    /\ "file" \notin seqToSet(res.names)
    /\ last.eval
    /\ last.res = "ok"
    /\ mac.script.loads = << "http" >>


\* C20: once SetFS has given the session a filesystem, whether before or after the
\* AddModuleScript calls, an execution evaluates its script against that filesystem
\* only: no script module is materialized into the machine's filesystem or named
\* in __modules__, on the first run and on every later one.
C20_SetFSOverridesScriptModules ==
    (modFS = UserFS /\ last.eval) =>
        /\ mac.scriptFS = UserFS
        /\ \A fp \in DOMAIN scriptMods :
              /\ fp \notin seqToSet(modNames)
              /\ fp \notin seqToSet(mac.globals["__modules__"])


\* C21: after a successful resolution the preload list and the lazyload map hold the
\* same loaders: every loader of the map occurs exactly once in the list, the list
\* has no other entry, and the list is as long as the map has keys.
C21_PreloadMatchesLazyload ==
    Resolved =>
        /\ \A l \in Range(res.out.lazy) : Count(res.out.pre, l) = 1
        /\ \A i \in DOMAIN res.out.pre : res.out.pre[i] \in Range(res.out.lazy)
        /\ Len(res.out.pre) = Cardinality(DOMAIN res.out.lazy)


\* C22: after a successful resolution the keys of the lazyload map are exactly the
\* module names the engine returns, and the name sets of the built-in, the custom
\* and the dynamic source, whose union those names are, are pairwise disjoint.
C22_LazyKeysAreResolvedNames ==
    Resolved =>
        /\ DOMAIN res.out.lazy = seqToSet(res.out.names)
        /\ seqToSet(res.out.names)
              = seqToSet(res.out.star) \cup seqToSet(res.out.cus) \cup seqToSet(res.out.dyn)
        /\ seqToSet(res.out.star) \cap seqToSet(res.out.cus) = {}
        /\ seqToSet(res.out.star) \cap seqToSet(res.out.dyn) = {}
        /\ seqToSet(res.out.cus) \cap seqToSet(res.out.dyn) = {}

\* C22 witness: a session has executed on a resolution that drew on all three
\* sources.
C22_Witness ==
    /\ Resolved
    /\ hasExec
    /\ res.out.star # << >> /\ res.out.cus # << >> /\ res.out.dyn # << >>


\* C23: a resolution succeeds exactly when the set identifier is known and every
\* explicit name that is neither a built-in name nor the name of a custom loader
\* gets a loader from a configured resolver; the names it then returns are the
\* names of the set, the explicit built-in names, the names of all custom loaders
\* and the explicit names left to the resolver.
C23_ResolvedNamesAndSuccess ==
    res.n > 0 =>
        /\ (res.out.err = NilErr) <=>
              /\ res.cfg.modSet \in RegistryKnown
              /\ Unmatched(res.cfg) # << >> => res.cfg.dynMods.set
              /\ Refused(res.cfg) = << >>
        /\ res.out.err = NilErr =>
              seqToSet(res.out.names)
                 = seqToSet(RegistryNames(res.cfg.modSet))
                      \cup (seqToSet(res.cfg.namedMods) \cap seqToSet(fullModuleNames))
                      \cup DOMAIN res.cfg.loadMods
                      \cup seqToSet(Unmatched(res.cfg))

\* C23 witness: a session has executed with an explicit built-in name outside its
\* set, a custom loader that was not named explicitly and a dynamically resolved
\* name among its modules.
C23_Witness ==
    /\ Resolved
    /\ hasExec
    /\ \E n \in seqToSet(res.cfg.namedMods) \cap seqToSet(fullModuleNames) :
          n \notin seqToSet(RegistryNames(res.cfg.modSet)) /\ n \in seqToSet(modNames)
    /\ \E n \in DOMAIN res.cfg.loadMods :
          n \notin seqToSet(res.cfg.namedMods) /\ n \in seqToSet(modNames)
    /\ \E n \in seqToSet(Unmatched(res.cfg)) : n \in seqToSet(modNames)


\* the source a loader of the preload list came from: 1 built-in, 2 custom, 3 dynamic
SourceRank(l) ==
    CASE l.src \in {"starlet", "userlog"} -> 1
      [] l.src \in {"host", "WrapModuleData", "WrapStructData"} -> 2
      [] l.src = "dynamic" -> 3
DynamicIn(loaders) == SelectSeq(loaders, LAMBDA l : l.src = "dynamic")

\* C24: in the preload list of a successful resolution the built-in loaders come
\* first, then the custom loaders, then the dynamically resolved ones, and these
\* stand in the order of the explicit names they were resolved for.
C24_PreloadOrder ==
    Resolved =>
        /\ \A i \in DOMAIN res.out.pre : \A j \in DOMAIN res.out.pre :
              i < j => SourceRank(res.out.pre[i]) <= SourceRank(res.out.pre[j])
        /\ [i \in 1..Len(DynamicIn(res.out.pre)) |-> DynamicIn(res.out.pre)[i].name]
              = Unmatched(res.cfg)
        /\ \A i \in 1..Len(DynamicIn(res.out.pre)) : DynamicIn(res.out.pre)[i].n = i

\* C24 witness: a session has executed on a preload list that holds a built-in, a
\* custom and a dynamically resolved loader.
C24_Witness ==
    /\ Resolved
    /\ hasExec
    /\ mac.preloadMods = res.out.pre
    /\ {SourceRank(res.out.pre[i]) : i \in DOMAIN res.out.pre} = {1, 2, 3}


\* C25: in no resolution is the resolver invoked for an explicit name that is a
\* selected built-in name or the name of a custom loader, and after a successful
\* resolution such a name is bound to its built-in or custom loader, never to a
\* loader of the resolver.
C25_ResolverOnlyComplements ==
    res.n > 0 =>
        /\ \A i \in DOMAIN res.out.calls :
              res.out.calls[i] \notin BuiltinNames(res.cfg) \cup DOMAIN res.cfg.loadMods
        /\ res.out.err = NilErr =>
              \A n \in BuiltinNames(res.cfg) \cup DOMAIN res.cfg.loadMods :
                  /\ res.out.lazy[n].src # "dynamic"
                  /\ \A i \in DOMAIN res.out.pre :
                        ~(res.out.pre[i].src = "dynamic" /\ res.out.pre[i].name = n)

\* C25 witness: a session with a resolver has executed; one of its explicit names
\* was a built-in or custom module and another one went to the resolver.
C25_Witness ==
    /\ Resolved
    /\ hasExec
    /\ res.cfg.dynMods.set
    /\ seqToSet(res.cfg.namedMods) \cap (BuiltinNames(res.cfg) \cup DOMAIN res.cfg.loadMods) # {}
    /\ res.out.calls # << >>


\* the position in a list of unmatched names of the first one in the set bad
FirstIn(names, bad) ==
    CHOOSE k \in DOMAIN names :
        names[k] \in bad /\ \A j \in 1..(k - 1) : names[j] \notin bad

\* C26: a resolution in which the dynamic source fails stops at the first failing
\* name: without a resolver nothing is invoked and the error is module-not-found;
\* with one, the resolver has been invoked for the unmatched explicit names up to
\* the first it refuses, in the order they were added, and for none after it, and
\* the execution call returns the error of that name.
C26_StopsAtFirstFailure ==
    (/\ res.n > 0
     /\ res.cfg.modSet \in RegistryKnown
     /\ Unmatched(res.cfg) # << >>) =>
        /\ ~res.cfg.dynMods.set =>
              /\ res.out.calls = << >>
              /\ res.out.err.is = ErrModuleNotFound.is
        /\ (res.cfg.dynMods.set /\ Refused(res.cfg) # << >>) =>
              LET u == Unmatched(res.cfg)
                  k == FirstIn(u, res.cfg.dynMods.nilFor \cup res.cfg.dynMods.errFor)
              IN /\ res.out.calls = SubSeq(u, 1, k)
                 /\ res.out.err = IF u[k] \in res.cfg.dynMods.errFor
                                  THEN ErrResolver(u[k]) ELSE WrapNotFound(u[k])
        /\ (res.out.err # NilErr /\ last.resolved) =>
              /\ last.res = "error"
              /\ last.err = res.out.err
              /\ ~last.eval

\* C26 witness: an execution call has just failed on the first of two unmatched
\* explicit names, and the resolver was not invoked for the second.
C26_Witness ==
    /\ res.n > 0
    /\ last.op = "Run" /\ last.resolved /\ last.res = "error"
    /\ res.cfg.dynMods.set
    /\ Len(Unmatched(res.cfg)) = 2
    /\ Unmatched(res.cfg)[1] # Unmatched(res.cfg)[2]
    /\ res.out.calls = << Unmatched(res.cfg)[1] >>


\* the session is Executed and every evaluation since its machine was built failed
ExecutedByFailure == hasExec /\ mac.defined /\ ~mac.ranOK

\* C27: an execution call that prepares the session and then fails in the script
\* still sets the executed flag and counts; on the session it leaves behind a
\* mutator call panics, an execution call does not resolve the modules again, and
\* the functions the script defined stay callable.
C27_FailedRunCounts ==
    [][/\ (runLeft' # runLeft /\ last'.eval /\ last'.res = "error") =>
              /\ hasExec'
              /\ execTimes' = execTimes + 1
              /\ mac'.defined
       /\ (ExecutedByFailure /\ cfgLeft' # cfgLeft /\ last'.op \in MutatorOps) =>
              last'.res = "panic"
       /\ (ExecutedByFailure /\ runLeft' # runLeft) => res'.n = res.n]_vars


\* C28: the executed flag implies a counter of at least one; no call lowers the
\* counter; an execution call whose preparation succeeded raises it by exactly one;
\* an execution call that failed in preparation, and every other call, leaves it.
C28_CounterFollowsExecutions ==
    [][/\ hasExec' => execTimes' >= 1
       /\ execTimes' >= execTimes
       /\ execTimes' = IF runLeft' # runLeft /\ last'.eval THEN execTimes + 1 ELSE execTimes]_vars

\* C28 witness: a session that executed and was reset has just failed to prepare
\* an execution call: the flag is clear and the counter still counts the first run.
C28_Witness ==
    /\ ~hasExec
    /\ execTimes = 1
    /\ prev.n > 0
    /\ res.n > 0
    /\ res.err # NilErr
    /\ last.res = "error" /\ last.resolved /\ ~last.eval


\* C29: two successful resolutions of one session with equal configurations, one
\* before and one after a Reset, yield the same preload list in the same order.
C29_ResolutionDeterministic ==
    (/\ prev.n > 0 /\ res.n > 0
     /\ prev.cfg = res.cfg
     /\ prev.out.err = NilErr /\ res.out.err = NilErr) =>
        /\ res.out.pre = prev.out.pre
        /\ res.out.lazy = prev.out.lazy


\* the built-in names a configuration selects: those of its set and its explicit ones
SelectedBuiltins(cfg) ==
    seqToSet(RegistryNames(cfg.modSet))
        \cup (seqToSet(cfg.namedMods) \cap seqToSet(fullModuleNames))

\* C30: after a successful resolution a custom loader registered under a known
\* built-in name is the module of that name, once in the preload list, as long as
\* the name is neither in the module set nor an explicit name; when the name is
\* selected, the built-in loader stands in its place and the custom one is dropped.
C30_PriorityOnlyForSelected ==
    Resolved =>
        \A n \in (DOMAIN res.cfg.loadMods) \cap seqToSet(fullModuleNames) :
            IF n \in SelectedBuiltins(res.cfg)
            THEN /\ n \in DOMAIN res.out.lazy
                 /\ res.out.lazy[n] \in {StarletLoader(n), UserLogLoader}
                 /\ Count(res.out.pre, res.cfg.loadMods[n]) = 0
            ELSE /\ n \in DOMAIN res.out.lazy
                 /\ res.out.lazy[n] = res.cfg.loadMods[n]
                 /\ Count(res.out.pre, res.cfg.loadMods[n]) = 1
                 /\ Count(res.out.pre, StarletLoader(n)) = 0
                 /\ n \in seqToSet(res.out.names)

\* C30 witness: a session ran with a custom loader as its module "http"; after a
\* Reset the name was added with AddNamedModules and the session ran with the
\* built-in loader in its place.
C30_Witness ==
    /\ prev.n > 0 /\ prev.out.err = NilErr
    /\ "http" \in DOMAIN prev.cfg.loadMods
    /\ prev.out.lazy["http"] = prev.cfg.loadMods["http"]
    /\ Resolved
    /\ hasExec
    /\ "http" \in seqToSet(res.cfg.namedMods)
    /\ res.cfg.loadMods = prev.cfg.loadMods
    /\ mac.lazyloadMods["http"] = StarletLoader("http")


\* C31: a CallStarlarkFunc call leaves the executed flag, the execution counter,
\* the configuration and the resolution of the session as they are and never
\* panics; on a nil session it returns the no-machine error; a mutator that follows
\* it on a session that has not executed returns normally.
C31_CallKeepsLifecycle ==
    [][/\ last'.op = "CallStarlarkFunc" =>
              /\ hasExec' = hasExec
              /\ execTimes' = execTimes
              /\ Config' = Config
              /\ res' = res
              /\ modNames' = modNames
              /\ last'.res # "panic"
              /\ ~last'.resolved
       /\ (last.op = "CallStarlarkFunc" /\ ~hasExec /\ last'.op \in MutatorOps) =>
              last'.res = "ok"]_vars

\* C31 witness: next to a configured session that never executed and never
\* resolved, a CallStarlarkFunc on a nil session has returned the no-machine error.
C31_Witness ==
    /\ last.op = "CallStarlarkFunc"
    /\ last.err = ErrNoMachine
    /\ last.res = "error"
    /\ ~hasExec
    /\ execTimes = 0
    /\ res.n = 0
    /\ cfgLeft < MaxCfg


\* C32: a locked public operation releases the session lock on every exit
\* path, the error return of a failed preparation and the panic of a mutator
\* after an execution included: a goroutine that is outside every call holds no
\* lock, every goroutine that holds the lock gives it up, and a goroutine that
\* waits for the lock acquires it.
C32_LockReleasedOnEveryExit ==
    /\ [](\A g \in Goroutines : pc[g] = Idle => mu # g)
    /\ \A g \in Goroutines : (mu = g) ~> (mu = 0)
    /\ \A g \in Goroutines : At(g, "CallStarlarkFunc", "check") ~> (mu = g)

\* a mutator has panicked after an execution and another call holds the lock
C32_Witness ==
    /\ last.op = "SetModuleSet" /\ last.res = "panic"
    /\ hasExec
    /\ \E g \in Goroutines : mu = g /\ pc[g].op \in {"Reset", "CallStarlarkFunc"}


\* no value occurs twice in ss
NoDuplicates(ss) == \A i \in 1..Len(ss) : \A j \in 1..Len(ss) : ss[i] = ss[j] => i = j

\* the index at which s occurs first in ss
FirstAt(ss, s) == CHOOSE i \in 1..Len(ss) : ss[i] = s /\ \A k \in 1..(i - 1) : ss[k] # s

\* out lists values of ss, in the order in which they occur first in ss
InFirstSeenOrder(out, ss) ==
    /\ seqToSet(out) \subseteq seqToSet(ss)
    /\ \A i \in 1..Len(out) : \A j \in 1..Len(out) :
          i < j => FirstAt(ss, out[i]) < FirstAt(ss, out[j])

\* C33: appendUniques(list, additions...) returns the values of list followed
\* by those of additions, each kept at its first occurrence only and in
\* first-seen order: the result has no duplicates, holds exactly the values of
\* list and additions, the slices passed are left as they were, and
\* appendUniques of the result with no additions gives the result again.
C33_AppendUniques ==
    util.op = "appendUniques" =>
        /\ NoDuplicates(util.out)
        /\ seqToSet(util.out) = seqToSet(util.given) \cup seqToSet(util.args)
        /\ InFirstSeenOrder(util.out, util.given \o util.args)
        /\ util.list = util.given /\ util.rest = util.args
        /\ appendUniques(util.out, << >>) = util.out

\* a list with a repeated value, additions that repeat one of its values and
\* bring a new one
C33_Witness ==
    /\ util.op = "appendUniques"
    /\ util.given = << "file", "atom", "file" >>
    /\ util.args = << "atom", "http", "http" >>
    /\ util.out = << "file", "atom", "http" >>


\* C34: removeUniques(list, removals...) returns exactly the values of list
\* that are not among removals, each once, in the order of their first
\* occurrence in list; repeating the values of list or of removals does not
\* change the result, and the list passed is left as it was.
C34_RemoveUniques ==
    util.op = "removeUniques" =>
        /\ NoDuplicates(util.out)
        /\ seqToSet(util.out) = seqToSet(util.given) \ seqToSet(util.args)
        /\ InFirstSeenOrder(util.out, util.given)
        /\ removeUniques(util.given \o util.given,
                         seqToSet(util.args \o util.args)) = util.out
        /\ removeUniques(firstSeen(util.given, {}),
                         seqToSet(firstSeen(util.args, {}))) = util.out
        /\ util.list = util.given /\ util.rest = util.args

\* a list with a repeated value that stays and a value that goes, removals
\* that repeat a value and name one the list does not hold
C34_Witness ==
    /\ util.op = "removeUniques"
    /\ util.given = << "http", "atom", "http" >>
    /\ util.args = << "atom", "file", "atom" >>
    /\ util.out = << "http" >>


\* ss with its elements taken in the order p
Reordered(ss, p) == [i \in 1..Len(ss) |-> ss[p[i]]]

\* C35: uniqueStrings(list) returns the distinct values of list in bytewise
\* lexicographic order, without duplicates; a list of length 0 or 1 is returned
\* as it is; uniqueStrings of the result is the result, and every reordering
\* of list gives the same result.
C35_UniqueStrings ==
    util.op = "uniqueStrings" =>
        /\ NoDuplicates(util.out)
        /\ seqToSet(util.out) = seqToSet(util.given)
        /\ IsSortedUnique(util.out)
        /\ Len(util.given) < 2 => util.out = util.given
        /\ uniqueStrings(util.out) = util.out
        /\ \A p \in Perms(1..Len(util.given)) :
              uniqueStrings(Reordered(util.given, p)) = util.out
        /\ util.list = util.given

\* an unsorted list with a repeated value
C35_Witness ==
    /\ util.op = "uniqueStrings"
    /\ util.given = << "http", "atom", "http" >>
    /\ util.out = << "atom", "http" >>

====
